---- MODULE Spec2Model ----
(***************************************************************************)
(* The API gateway of IACMS: session middleware, session login,            *)
(* authenticate, rbacMiddleware and the service proxies, as mounted by     *)
(* startServer.  One request is in flight at a time; the session store,    *)
(* the permission cache and the clock persist across requests.             *)
(* SpecCache runs getUserPermissions alone, as concurrent lookups of one    *)
(* (subject, tenant) against an RBAC service whose data changes, and        *)
(* SpecRules applies getRequiredPermission and hasPermission to bounded    *)
(* inputs.                                                                 *)
(*                                                                         *)
(* Paths are sequences of segments without the leading empty segment:      *)
(* "/api/v1/cases" is <<"api","v1","cases">>.  Header values and tokens    *)
(* are sequences of characters, a whole token counting as one character.   *)
(***************************************************************************)
EXTENDS Integers, Sequences, FiniteSets, TLC

VARIABLES now, store, nextSid, permissionCache, req, grants, lookups, anchor, probe,
          inflight, loggedOut, rls, call, accounts, authReply, bus

\* the state outside the gateway's single-request pipeline and its permission
\* cache: concurrent requests on one session, the storage context markers
\* and the auth service
serviceVars == <<inflight, loggedOut, rls, call, accounts, authReply, bus>>

\* the state of the gateway's pipeline, permission cache and session store
gatewayVars == <<now, store, nextSid, permissionCache, req, grants, lookups, anchor, probe>>

vars == <<now, store, nextSid, permissionCache, req, grants, lookups, anchor, probe,
          inflight, loggedOut, rls, call, accounts, authReply, bus>>

\* ---------------------------------------------------------------- bounds
MaxTime == 3
MaxSessions == 1
\* concurrent permission lookups for one (subject, tenant)
MaxLookups == 2
\* concurrent requests on one session
MaxRequests == 2
\* handlers held by one EventBus over all event types, and 'message'
\* callbacks registered on its subscriber connection
MaxHandlers == 3

\* ------------------------------------------------- program constants
\* lifetimes in clock ticks
SESSION_MAX_AGE == 1
JWT_EXPIRES_IN == 3
JWT_REFRESH_EXPIRES_IN == 4
CACHE_TTL == 2

Undef == "undefined"
None == [none |-> TRUE]

\* ------------------------------------------------------------- sequences
StartsWith(s, p) == Len(s) >= Len(p) /\ SubSeq(s, 1, Len(p)) = p

Substring(s, n) == SubSeq(s, n + 1, Len(s))

\* ---------------------------------------------------------- user records
\* the auth service's user rows, as returned by its login
Users == {"u1", "u2"}

UserRecord(u) ==
  IF u = "u1"
  THEN [id |-> "u1", tenantId |-> "t1", email |-> "e1", firstName |-> "Ann", lastName |-> "Lee"]
  ELSE [id |-> "u2", tenantId |-> "t2", email |-> "e2", firstName |-> Undef, lastName |-> Undef]

\* the user object of the auth service's login response
AuthServiceUser(u) ==
  [id |-> UserRecord(u).id, email |-> UserRecord(u).email,
   firstName |-> UserRecord(u).firstName, lastName |-> UserRecord(u).lastName,
   tenant |-> [id |-> UserRecord(u).tenantId, code |-> <<"code", UserRecord(u).tenantId>>]]

\* a snapshot that takes the tenant's code for the tenant id
sessionSnapshotTenantCode(user) ==
  [id |-> user.id, tenantId |-> user.tenant.code, email |-> user.email,
   firstName |-> user.firstName, lastName |-> user.lastName, tenant |-> user.tenant]

\* req.session.user as sessionLogin builds it from that user object
sessionSnapshot(user) ==
  [id |-> user.id, tenantId |-> user.tenant.id, email |-> user.email,
   firstName |-> user.firstName, lastName |-> user.lastName, tenant |-> user.tenant]

\* ------------------------------------------------------------------ tokens
\* tokA: access token of u1; tokR: refresh token of u1 (payload carries the
\* id only); tokF: access token of u2 signed with another secret; tokM: not
\* a JWT at all.
Tokens == {"tokA", "tokR", "tokF", "tokM"}

generateTokens(u) ==
  [accessToken |-> [wellFormed |-> TRUE, sigOk |-> TRUE, exp |-> JWT_EXPIRES_IN,
                    payload |-> [id |-> UserRecord(u).id, tenantId |-> UserRecord(u).tenantId,
                                 email |-> UserRecord(u).email]],
   refreshToken |-> [wellFormed |-> TRUE, sigOk |-> TRUE, exp |-> JWT_REFRESH_EXPIRES_IN,
                     payload |-> [id |-> UserRecord(u).id, tenantId |-> Undef, email |-> Undef]]]

TokenContent(tok) ==
  CASE tok = "tokA" -> generateTokens("u1").accessToken
    [] tok = "tokR" -> generateTokens("u1").refreshToken
    [] tok = "tokF" -> [generateTokens("u2").accessToken EXCEPT !.sigOk = FALSE]
    [] OTHER -> [wellFormed |-> FALSE, sigOk |-> FALSE, exp |-> 0,
                 payload |-> [id |-> Undef, tenantId |-> Undef, email |-> Undef]]

\* jwt.verify: decode, then signature, then expiry
jwtVerify(str, t) ==
  LET c == IF Len(str) = 1 /\ str[1] \in Tokens THEN TokenContent(str[1]) ELSE TokenContent("tokM")
  IN  IF ~c.wellFormed THEN [ok |-> FALSE, name |-> "JsonWebTokenError", payload |-> c.payload]
      ELSE IF ~c.sigOk THEN [ok |-> FALSE, name |-> "JsonWebTokenError", payload |-> c.payload]
      ELSE IF t >= c.exp THEN [ok |-> FALSE, name |-> "TokenExpiredError", payload |-> c.payload]
      ELSE [ok |-> TRUE, name |-> "", payload |-> c.payload]

\* validateJwtToken that tests for an error name jwt.verify never raises
validateJwtTokenWrongName(str, t) ==
  LET v == jwtVerify(str, t)
  IN  IF v.ok THEN [valid |-> TRUE, error |-> "", payload |-> v.payload]
      ELSE IF v.name = "ExpiredError"
           THEN [valid |-> FALSE, error |-> "TOKEN_EXPIRED", payload |-> v.payload]
           ELSE [valid |-> FALSE, error |-> "INVALID_TOKEN", payload |-> v.payload]

validateJwtToken(str, t) ==
  LET v == jwtVerify(str, t)
  IN  IF v.ok THEN [valid |-> TRUE, error |-> "", payload |-> v.payload]
      ELSE IF v.name = "TokenExpiredError"
           THEN [valid |-> FALSE, error |-> "TOKEN_EXPIRED", payload |-> v.payload]
           ELSE [valid |-> FALSE, error |-> "INVALID_TOKEN", payload |-> v.payload]

\* ----------------------------------------------------------------- headers
BearerPrefix == <<"B", "e", "a", "r", "e", "r", " ">>
BasicPrefix == <<"B", "a", "s", "i", "c", " ">>

\* extractBearerToken that takes the text after the first space of any scheme
extractBearerTokenAnyScheme(authHeader) ==
  IF authHeader # <<>> /\ StartsWith(authHeader, BearerPrefix)
  THEN [isNull |-> FALSE, str |-> Substring(authHeader, 7)]
  ELSE IF authHeader # <<>> /\ StartsWith(authHeader, BasicPrefix)
  THEN [isNull |-> FALSE, str |-> Substring(authHeader, 6)]
  ELSE [isNull |-> TRUE, str |-> <<>>]

extractBearerToken(authHeader) ==
  IF authHeader # <<>> /\ StartsWith(authHeader, BearerPrefix)
  THEN [isNull |-> FALSE, str |-> Substring(authHeader, 7)]
  ELSE [isNull |-> TRUE, str |-> <<>>]

Truthy(token) == ~token.isNull /\ token.str # <<>>

HdrNames == {"x-user-id", "x-tenant-id", "x-user-email", "x-user-firstname", "x-user-lastname"}

\* setUserHeaders that leaves a header the request already carries
setUserHeadersKeep(headers, user) ==
  [headers EXCEPT !["x-user-id"] = IF @ = Undef THEN user.id ELSE @,
                  !["x-tenant-id"] = IF @ = Undef THEN user.tenantId ELSE @,
                  !["x-user-email"] = IF @ = Undef THEN user.email ELSE @,
                  !["x-user-firstname"] = IF user.firstName # Undef THEN user.firstName ELSE @,
                  !["x-user-lastname"] = IF user.lastName # Undef THEN user.lastName ELSE @]

setUserHeaders(headers, user) ==
  [headers EXCEPT !["x-user-id"] = user.id,
                  !["x-tenant-id"] = user.tenantId,
                  !["x-user-email"] = user.email,
                  !["x-user-firstname"] = IF user.firstName # Undef THEN user.firstName ELSE @,
                  !["x-user-lastname"] = IF user.lastName # Undef THEN user.lastName ELSE @]

\* ------------------------------------------------------------ public routes
PUBLIC_ROUTES ==
  { [method |-> "POST", path |-> <<"auth", "login">>],
    [method |-> "POST", path |-> <<"auth", "register">>],
    [method |-> "POST", path |-> <<"auth", "refresh">>],
    [method |-> "POST", path |-> <<"session", "login">>],
    [method |-> "GET", path |-> <<"tenants", "validate">>] }

\* isPublicRoute that does not compare the method
isPublicRouteAnyMethod(method, path) ==
  \E route \in PUBLIC_ROUTES :
     \/ path = route.path
     \/ (Len(path) > Len(route.path) /\ StartsWith(path, route.path))

isPublicRoute(method, path) ==
  \E route \in PUBLIC_ROUTES :
     /\ route.method = method
     /\ \/ path = route.path
        \/ (Len(path) > Len(route.path) /\ StartsWith(path, route.path))

\* -------------------------------------------------------- route permissions
\* A permission string "resource:action" is the pair <<resource, action>>,
\* the superuser marker "*" is <<"*">>; null is the empty sequence.
NoPermission == <<>>

\* the table in insertion order; a key is method ":" "/" path
ROUTE_PERMISSIONS ==
  <<
    [method |-> "GET", path |-> <<"api", "v1", "cases">>, permission |-> <<"cases", "read">>],
    [method |-> "POST", path |-> <<"api", "v1", "cases">>, permission |-> <<"cases", "create">>],
    [method |-> "GET", path |-> <<"api", "v1", "cases", ":id">>, permission |-> <<"cases", "read">>],
    [method |-> "PUT", path |-> <<"api", "v1", "cases", ":id">>, permission |-> <<"cases", "update">>],
    [method |-> "PATCH", path |-> <<"api", "v1", "cases", ":id">>, permission |-> <<"cases", "update">>],
    [method |-> "DELETE", path |-> <<"api", "v1", "cases", ":id">>, permission |-> <<"cases", "delete">>],
    [method |-> "POST", path |-> <<"api", "v1", "cases", ":id", "assign">>, permission |-> <<"cases", "assign">>],
    [method |-> "POST", path |-> <<"api", "v1", "cases", ":id", "close">>, permission |-> <<"cases", "close">>],
    [method |-> "GET", path |-> <<"api", "v1", "cases", ":id", "assignments">>, permission |-> <<"cases", "read">>],
    [method |-> "POST", path |-> <<"api", "v1", "cases", ":id", "assignments">>, permission |-> <<"cases", "assign">>],
    [method |-> "GET", path |-> <<"api", "v1", "workflows">>, permission |-> <<"workflows", "read">>],
    [method |-> "POST", path |-> <<"api", "v1", "workflows">>, permission |-> <<"workflows", "create">>],
    [method |-> "GET", path |-> <<"api", "v1", "workflows", ":id">>, permission |-> <<"workflows", "read">>],
    [method |-> "PUT", path |-> <<"api", "v1", "workflows", ":id">>, permission |-> <<"workflows", "update">>],
    [method |-> "DELETE", path |-> <<"api", "v1", "workflows", ":id">>, permission |-> <<"workflows", "delete">>],
    [method |-> "GET", path |-> <<"api", "v1", "rbac", "users">>, permission |-> <<"users", "read">>],
    [method |-> "GET", path |-> <<"api", "v1", "rbac", "users", ":id">>, permission |-> <<"users", "read">>],
    [method |-> "GET", path |-> <<"api", "v1", "rbac", "roles">>, permission |-> <<"roles", "read">>],
    [method |-> "POST", path |-> <<"api", "v1", "rbac", "roles">>, permission |-> <<"roles", "create">>],
    [method |-> "PUT", path |-> <<"api", "v1", "rbac", "roles", ":id">>, permission |-> <<"roles", "update">>],
    [method |-> "DELETE", path |-> <<"api", "v1", "rbac", "roles", ":id">>, permission |-> <<"roles", "delete">>],
    [method |-> "POST", path |-> <<"api", "v1", "rbac", "user-roles", "assign">>, permission |-> <<"roles", "assign">>],
    [method |-> "GET", path |-> <<"api", "v1", "audit">>, permission |-> <<"audit", "read">>],
    [method |-> "GET", path |-> <<"api", "v1", "audit", ":id">>, permission |-> <<"audit", "read">>],
    [method |-> "GET", path |-> <<"api", "v1", "tenants">>, permission |-> <<"tenants", "read">>],
    [method |-> "PUT", path |-> <<"api", "v1", "tenants", ":id">>, permission |-> <<"tenants", "update">>]
  >>

ParamSegs == {":id"}

IsParam(part) == part \in ParamSegs

\* routeKey.split(':') keeps the text between the first and the second
\* colon: a pattern with a parameter is cut before the parameter's colon,
\* which leaves a trailing empty segment.
FirstParam(pattern) ==
  IF \E i \in 1..Len(pattern) : IsParam(pattern[i])
  THEN CHOOSE i \in 1..Len(pattern) :
         IsParam(pattern[i]) /\ \A j \in 1..(i - 1) : ~IsParam(pattern[j])
  ELSE 0

routePathOf(pattern) ==
  IF FirstParam(pattern) = 0 THEN pattern
  ELSE SubSeq(pattern, 1, FirstParam(pattern) - 1) \o <<"">>

matchPath(pattern, actualPath) ==
  /\ Len(pattern) = Len(actualPath)
  /\ \A index \in 1..Len(pattern) :
       IsParam(pattern[index]) \/ pattern[index] = actualPath[index]

RuleIndexes == 1..Len(ROUTE_PERMISSIONS)

getRequiredPermission(method, path) ==
  IF \E i \in RuleIndexes :
       ROUTE_PERMISSIONS[i].method = method /\ ROUTE_PERMISSIONS[i].path = path
  THEN ROUTE_PERMISSIONS[CHOOSE i \in RuleIndexes :
         ROUTE_PERMISSIONS[i].method = method /\ ROUTE_PERMISSIONS[i].path = path].permission
  ELSE LET hits == { i \in RuleIndexes :
                       /\ ROUTE_PERMISSIONS[i].method = method
                       /\ matchPath(routePathOf(ROUTE_PERMISSIONS[i].path), path) }
       IN  IF hits = {} THEN NoPermission
           ELSE ROUTE_PERMISSIONS[CHOOSE i \in hits : \A j \in hits : i <= j].permission


\* requiredPermission.split(':')[0] followed by ":*"
wildcardOf(requiredPermission) == <<requiredPermission[1], "*">>

\* a check that knows no '<resource>:*' wildcard
hasPermissionNoWildcard(userPermissions, requiredPermission) ==
  \/ <<"*">> \in userPermissions
  \/ <<"admin", "*">> \in userPermissions
  \/ requiredPermission \in userPermissions

hasPermission(userPermissions, requiredPermission) ==
  \/ <<"*">> \in userPermissions
  \/ <<"admin", "*">> \in userPermissions
  \/ requiredPermission \in userPermissions
  \/ wildcardOf(requiredPermission) \in userPermissions

\* ------------------------------------------------------------------ proxies
\* the proxy mounts of startServer in mounting order, below /api/v1
PROXIES ==
  << [mount |-> "auth", target |-> "auth", onProxyReq |-> TRUE],
     [mount |-> "tenants", target |-> "auth", onProxyReq |-> FALSE],
     [mount |-> "rbac", target |-> "rbac", onProxyReq |-> TRUE],
     [mount |-> "cases", target |-> "case", onProxyReq |-> TRUE],
     [mount |-> "workflows", target |-> "workflow", onProxyReq |-> TRUE],
     [mount |-> "referrals", target |-> "referral", onProxyReq |-> TRUE],
     [mount |-> "audit", target |-> "audit", onProxyReq |-> TRUE],
     [mount |-> "integrations", target |-> "integration", onProxyReq |-> TRUE],
     [mount |-> "notifications", target |-> "notification", onProxyReq |-> TRUE] >>

\* the first proxy whose mount path prefixes the request path, 0 when none
ProxyFor(path) ==
  LET hits == { i \in 1..Len(PROXIES) : StartsWith(path, <<"api", "v1", PROXIES[i].mount>>) }
  IN  IF hits = {} THEN 0 ELSE CHOOSE i \in hits : \A j \in hits : i <= j

onProxyReq(headers, user) ==
  IF user # None
  THEN [headers EXCEPT !["x-user-id"] = user.id, !["x-tenant-id"] = user.tenantId]
  ELSE headers

\* req.path inside a middleware mounted on /api/v1
MountPrefix == <<"api", "v1">>

RelPath(path) == Substring(path, Len(MountPrefix))

\* -------------------------------------------------------- permission authority
\* the permissions the RBAC service holds for a user when the gateway starts
AuthorityPermissions(userId) ==
  IF userId = "u1" THEN {<<"cases", "read">>}
  ELSE IF userId = "u2" THEN {<<"cases", "create">>, <<"roles", "read">>}
  ELSE {}

AuthorityOutcomes == {"ok", "notOk", "networkError"}

\* data is what the RBAC service holds when it answers
fetchUserPermissions(data, userId, outcome) ==
  IF outcome = "ok" THEN data[userId] ELSE {}

\* ------------------------------------------------------------------- inputs
Sids == 1..MaxSessions

Methods == {"GET", "POST"}

\* /api/v1/api/v1/cases is the one kind of path whose mount-relative form
\* has a rule in ROUTE_PERMISSIONS
GatedPath == <<"api", "v1", "api", "v1", "cases">>

Paths ==
  { <<"api", "v1", "cases">>,
    <<"api", "v1", "auth", "login">>,
    <<"api", "v1", "auth", "profile">>,
    <<"api", "v1", "tenants", "validate", "ORG">>,
    <<"api", "v1", "session", "login">>,
    <<"api", "v1", "unknown">> }

\* the same path with a trailing slash: its mount-relative form
\* /api/v1/cases/ is what the patterns cut at their ':id' look like
GatedSlashPath == GatedPath \o <<"">>

RbacPaths ==
  { <<"api", "v1", "cases">>, GatedPath, GatedSlashPath, <<"api", "v1", "auth", "login">>,
    <<"api", "v1", "unknown">> }

AuthHeaders ==
  {<<>>, BearerPrefix, BasicPrefix \o <<"tokA">>} \cup { BearerPrefix \o <<tok>> : tok \in Tokens }

RbacAuthHeaders ==
  {<<>>, BearerPrefix \o <<"tokA">>, BearerPrefix \o <<"tokF">>}

NoHeaders == [h \in HdrNames |-> Undef]

ClientHeaders == {NoHeaders, [h \in HdrNames |-> "evil"]}

NoBody == [email |-> Undef, password |-> Undef]

\* login bodies: the password of the named user, a wrong one, or none
Bodies ==
  { [email |-> "e1", password |-> "pw-u1"],
    [email |-> "e2", password |-> "pw-u2"],
    [email |-> "e1", password |-> "wrong"],
    [email |-> "e1", password |-> Undef] }

SessionLoginPath == <<"api", "v1", "session", "login">>

SessionStatusPath == <<"api", "v1", "session", "status">>

\* the routes of the session router, which is mounted on /api/v1/session
\* ahead of authenticate
SESSION_ROUTES ==
  { [method |-> "POST", path |-> <<"api", "v1", "session", "login">>],
    [method |-> "POST", path |-> <<"api", "v1", "session", "logout">>],
    [method |-> "GET", path |-> <<"api", "v1", "session", "status">>],
    [method |-> "POST", path |-> <<"api", "v1", "session", "refresh">>] }

isSessionRoute(method, path) == [method |-> method, path |-> path] \in SESSION_ROUTES

StatusPaths == {SessionLoginPath, SessionStatusPath}

\* the user the auth service's login accepts the credentials for
AuthLogin(body) ==
  IF body.email = "e1" /\ body.password = "pw-u1" THEN "u1"
  ELSE IF body.email = "e2" /\ body.password = "pw-u2" THEN "u2"
  ELSE Undef

\* -------------------------------------------------------------------- state
\* owner records whose login created the session and changes nothing
NoSession == [id |-> 0, user |-> None, lastAccessed |-> -1, owner |-> Undef]

Reply(status, code, detail) == [status |-> status, code |-> code, detail |-> detail]

NoReply == Reply(0, "", NoPermission)

\* how the fetch of sessionLogin may end: with an answer of the auth
\* service, refused by its host, or with another failure of the connection
FetchOutcomes == {"answer", "ECONNREFUSED", "ETIMEDOUT"}

NoAuthCall == [outcome |-> "none", status |-> 0]

\* The request being served.  headers holds the five trust-boundary headers
\* of req.headers; loaded is the session as the session middleware left it;
\* stages, decision, expiredCookie, tokenChecked, sessionRead, cacheRead,
\* authorityCalls and outcome record what the middlewares did and change
\* nothing.  statusBody is the body sessionStatus answered with; authCall is
\* how sessionLogin's call of the auth service ended and the status the auth
\* service answered with; upstream is what the auth service made of a
\* forwarded GET /auth/profile.

IdleReq ==
  [pc |-> "idle", method |-> "GET", path |-> <<>>, cookie |-> 0, authorization |-> <<>>,
   body |-> NoBody, clientHeaders |-> NoHeaders, headers |-> NoHeaders,
   session |-> NoSession, loaded |-> NoSession,
   user |-> None, authMethod |-> Undef, required |-> NoPermission,
   response |-> NoReply, forwarded |-> None,
   stages |-> <<>>, decision |-> "none", expiredCookie |-> FALSE,
   tokenChecked |-> FALSE, sessionRead |-> FALSE,
   cacheRead |-> FALSE, authorityCalls |-> 0, outcome |-> "none", statusBody |-> None,
   authCall |-> NoAuthCall, upstream |-> None]

\* The concurrent lookups of getUserPermissions for one (subject, tenant).
\* response is the authority's answer in flight and result what the lookup
\* returned; called, age, stale and windowOf record what the lookup did and
\* change nothing: whether it called the authority, how old the returned set
\* was when it was returned, whether it found an entry past its TTL, and the
\* timestamp of the first-stored entry whose TTL window it started in (-1
\* when it started in none); failed records that the lookup's call to the
\* authority failed.
Lookups == 1..MaxLookups

IdleLookup ==
  [pc |-> "idle", response |-> {}, result |-> {}, called |-> FALSE, age |-> 0,
   stale |-> FALSE, windowOf |-> -1, failed |-> FALSE]

\* the subject whose permissions the concurrent lookups ask for
LookupUser == UserRecord("u1")

\* the grant sets the RBAC service may hold for that subject over time
GrantSets == {AuthorityPermissions("u1"), {<<"cases", "read">>, <<"cases", "create">>}}

\* One call of getRequiredPermission, hasPermission or the middleware made
\* by requireAuthMethod: its arguments and what it returned.  pinned is the
\* method requireAuthMethod was given, request the request as the middleware
\* left it, passed whether it called next() and at the time of the call.
NoProbe ==
  [fn |-> "none", method |-> "GET", path |-> <<>>, granted |-> {},
   required |-> NoPermission, permission |-> NoPermission, satisfied |-> FALSE,
   pinned |-> Undef, request |-> IdleReq, passed |-> FALSE, at |-> 0]

\* The requests that are concurrently in flight on one session cookie.
Requests == 1..MaxRequests

\* kind is "login" (POST /api/v1/session/login with the credentials of u1),
\* "logout" (POST /api/v1/session/logout) or "get" (GET /api/v1/cases without
\* a bearer token); savedHash is what express-session remembers of the
\* session's data as loaded or last saved, here its lastAccessed;
\* afterLogout records whether the request was sent after a logout of its
\* cookie's session had completed, and changes nothing.
IdleFlight ==
  [pc |-> "idle", kind |-> "none", cookie |-> 0, session |-> NoSession,
   savedHash |-> -1, status |-> 0, afterLogout |-> FALSE]

\* the storage context markers of the database session: app.current_tenant_id,
\* app.current_user_id and app.is_super_admin
NoContext == [tenant |-> Undef, user |-> Undef, superAdmin |-> FALSE]

\* a reset that forgets app.is_super_admin
resetRLSContextTenantOnly(ctx) == [ctx EXCEPT !.tenant = Undef, !.user = Undef]

\* RESET of the three markers
resetRLSContext(ctx) == NoContext

\* SET LOCAL app.current_tenant_id, and app.current_user_id when a user id
\* is given
setTenantContext(ctx, tenantId, userId) ==
  IF userId # Undef
  THEN [ctx EXCEPT !.tenant = tenantId, !.user = userId]
  ELSE [ctx EXCEPT !.tenant = tenantId]

\* SET LOCAL app.is_super_admin = true
setSuperAdminContext(ctx) == [ctx EXCEPT !.superAdmin = TRUE]

Tenants == {"t1", "t2"}

\* req.user as the tenant middleware may find it: absent, an identity with
\* tenant_id under either role name, or an identity whose tenant is kept
\* under another key (the gateway's tenantId), so that tenant_id is undefined
RequestUsers ==
  { None,
    [id |-> "u1", tenant_id |-> "t1", role |-> "user"],
    [id |-> "u1", tenant_id |-> "t1", role |-> "super_admin"],
    [id |-> "u1", tenant_id |-> Undef, role |-> "user"] }

\* fn is the storage-context operation that ran last and wtc where the
\* withTenantContext in progress stands; identity and header are the
\* req.user and x-tenant-id header the tenant middleware saw, tenantId the
\* tenant id the operation was given or resolved; elevated records that
\* setSuperAdminContext ran during the callback of withTenantContext
NoCall ==
  [fn |-> "none", wtc |-> "none", identity |-> None, header |-> Undef,
   tenantId |-> Undef, elevated |-> FALSE]

\* ------------------------------------------------------------- auth service
\* the code column of a tenant row
tenantCodeOf(t) == <<"code", t>>

bcryptHash(password) == <<"bcrypt", password>>

\* bcrypt.compare
bcryptCompare(password, hash) == hash = bcryptHash(password)

\* the password_hash column of a user row
passwordHashOf(u) ==
  IF u = "u1" THEN bcryptHash(<<"pw-u1">>) ELSE bcryptHash(<<"pw-u2">>)

\* String.prototype.trim on texts whose only blanks are at their ends
trim(str) == SelectSeq(str, LAMBDA c : c # " ")

\* toLowerCase / toUpperCase on texts written in the other case
toCanonicalCase(str) ==
  [i \in DOMAIN str |-> IF str[i] = "E1" THEN "e1"
                        ELSE IF str[i] = "CODE" THEN "code" ELSE str[i]]

\* validateEmail of a well-formed address
validateEmail(email) == toCanonicalCase(trim(email))

\* a text field that is missing or empty, which the validators treat alike
NoText == <<>>

\* validateTenantCode: null when no code is given
validateTenantCode(code) ==
  IF code = NoText THEN NoText ELSE toCanonicalCase(trim(code))

\* the rows of users and tenants that change: whether the user row exists
\* (u2 registers later), is_active and last login.  Identity, e-mail, tenant
\* and password hash of a user do not change and are given by UserRecord and
\* passwordHashOf.
InitialAccounts ==
  [users |-> [u \in Users |-> [exists |-> (u = "u1"), isActive |-> TRUE, lastLogin |-> -1]],
   tenants |-> [t \in Tenants |-> [isActive |-> TRUE]]]

NoLoginBody == [email |-> NoText, password |-> NoText, tenantCode |-> NoText]

\* bodies of POST /auth/login
LoginBodies ==
  [email : {NoText, <<"e1">>, <<" ", "E1">>, <<"e2">>, <<"e9">>},
   password : {NoText, <<"pw-u1">>, <<"pw-u1", " ">>, <<"pw-u2">>, <<" ">>},
   tenantCode : {NoText, <<"code", "t1">>, <<" ", "CODE", "t2">>, <<"code", "t9">>}]

\* the statusCode of the error classes of shared/common/errors.js
statusCodeOf(error) ==
  CASE error = "ValidationError" -> 400
    [] error = "UnauthorizedError" -> 401
    [] error = "NotFoundError" -> 404
    [] OTHER -> 500

\* bodies of POST /auth/register: the e-mail and tenant of u1 or of u2, or
\* a tenant that does not exist; the password is the one passwordHashOf
\* hashes for that user
RegisterBodies ==
  { [email |-> <<"e1">>, tenantId |-> "t1"],
    [email |-> <<"e2">>, tenantId |-> "t2"],
    [email |-> <<"e2">>, tenantId |-> "t9"] }

\* bodies of POST /auth/refresh: the refreshToken field
RefreshBodies == {NoText} \cup { <<tok>> : tok \in Tokens }

\* the answer of the auth service to its last request: op is the operation
\* ("login", "register" or "refresh"), body the login request it answers,
\* token the token presented to refresh, subject the user the answer's
\* tokens were generated for, error the class of the error passed to next()
NoAuthReply ==
  [op |-> "none", status |-> 0, error |-> "", message |-> "", user |-> None,
   tokens |-> None, body |-> NoLoginBody, token |-> NoText, subject |-> Undef]

AuthError(error, message, body) ==
  [NoAuthReply EXCEPT !.op = "login", !.status = statusCodeOf(error), !.error = error,
                      !.message = message, !.body = body]

\* ------------------------------------------------------------------ event bus
EventTypes == {"user.created", "user.logged_in"}

Handlers == {"h1", "h2"}

NoCalls == [h \in Handlers |-> 0]

\* handlers is the Map of the bus, from the event types that have a key to
\* the array of handlers; listeners counts the 'message' callbacks registered
\* on the subscriber connection.  last is the event received last and how
\* often each handler was invoked for it; removed holds the subscriptions
\* that unsubscribe was called for and that were not subscribed again.
NewEventBus ==
  [handlers |-> [e \in {} |-> <<>>], listeners |-> 0,
   last |-> [type |-> Undef, calls |-> NoCalls], removed |-> {}]

Init ==
  /\ bus = NewEventBus
  /\ now = 0
  /\ store = [s \in Sids |-> None]
  /\ nextSid = 1
  /\ permissionCache = [k \in {} |-> None]
  /\ req = IdleReq
  /\ grants = [u \in Users |-> AuthorityPermissions(u)]
  /\ lookups = [p \in Lookups |-> IdleLookup]
  /\ anchor = None
  /\ probe = NoProbe
  /\ inflight = [r \in Requests |-> IdleFlight]
  /\ loggedOut = {}
  /\ rls = NoContext
  /\ call = NoCall
  /\ accounts = InitialAccounts
  /\ authReply = NoAuthReply

\* ------------------------------------------------------------------ actions
\* a client sends a request
Send(methods, paths, cookies, authorizations) ==
  /\ req.pc = "idle"
  /\ \E method \in methods, path \in paths, cookie \in cookies,
        authorization \in authorizations, clientHeaders \in ClientHeaders,
        body \in Bodies \cup {NoBody} :
       /\ (body # NoBody) => (method = "POST" /\ path = SessionLoginPath /\ nextSid <= MaxSessions)
       /\ (method = "POST" /\ path = SessionLoginPath) => (body # NoBody)
       /\ req' = [IdleReq EXCEPT !.pc = "session", !.method = method, !.path = path,
                                 !.cookie = cookie, !.authorization = authorization,
                                 !.body = body, !.clientHeaders = clientHeaders,
                                 !.headers = clientHeaders]
  /\ UNCHANGED <<now, store, nextSid, permissionCache>>
  /\ UNCHANGED <<grants, lookups, anchor, probe>>
  /\ UNCHANGED serviceVars

NewRequest == Send(Methods, Paths, {0} \cup Sids, AuthHeaders)

\* a client sends a request to the session router's login or status path
NewRequestStatus == Send(Methods, StatusPaths, {0} \cup Sids, AuthHeaders)

\* a client without a session cookie sends a request
NewRequestRbac == Send(Methods, RbacPaths, {0}, RbacAuthHeaders)

\* a lookup that does not look at the row's expiry
storeGetAnyAge(st, sid, t) ==
  /\ sid \in Sids
  /\ st[sid] # None

\* the store's lookup of a session row: the row of that id, unless expired
storeGet(st, sid, t) ==
  /\ sid \in Sids
  /\ st[sid] # None
  /\ st[sid].expire >= t

\* express-session with the PostgreSQL store: load the session the cookie
\* names when its row has not expired, otherwise start an empty one
SessionMiddleware ==
  /\ req.pc = "session"
  /\ LET sess == IF storeGet(store, req.cookie, now)
                 THEN [id |-> req.cookie, user |-> store[req.cookie].user,
                       lastAccessed |-> store[req.cookie].lastAccessed,
                       owner |-> store[req.cookie].owner]
                 ELSE NoSession
     IN  req' = [req EXCEPT !.pc = "route", !.session = sess, !.loaded = sess,
                            !.expiredCookie = /\ req.cookie \in Sids
                                              /\ store[req.cookie] # None
                                              /\ store[req.cookie].expire < now,
                            !.stages = Append(@, "session")]
  /\ UNCHANGED <<now, store, nextSid, permissionCache>>
  /\ UNCHANGED <<grants, lookups, anchor, probe>>
  /\ UNCHANGED serviceVars

\* the catch block of sessionLogin: 503 when the connection was refused,
\* otherwise next(error) and the gateway's error handler
sessionLoginCatch(fetched) ==
  IF fetched = "ECONNREFUSED"
  THEN Reply(503, "SERVICE_UNAVAILABLE", NoPermission)
  ELSE Reply(500, "INTERNAL_ERROR", NoPermission)

\* POST /api/v1/session/login
sessionLogin ==
  /\ req.pc = "route"
  /\ req.method = "POST" /\ req.path = SessionLoginPath
  /\ IF req.body.email = Undef \/ req.body.password = Undef
     THEN /\ req' = [req EXCEPT !.pc = "end", !.response = Reply(400, "VALIDATION_ERROR", NoPermission),
                                !.stages = Append(@, "sessionLogin")]
          /\ UNCHANGED <<store, nextSid>>
     ELSE \E fetched \in FetchOutcomes :
            IF fetched # "answer"
            THEN /\ req' = [req EXCEPT !.pc = "end",
                                       !.response = sessionLoginCatch(fetched),
                                       !.authCall = [outcome |-> fetched, status |-> 0],
                                       !.stages = Append(@, "sessionLogin")]
                 /\ UNCHANGED <<store, nextSid>>
            ELSE IF AuthLogin(req.body) = Undef
            THEN /\ req' = [req EXCEPT !.pc = "end",
                                       !.response = Reply(401, "UNAUTHORIZED", NoPermission),
                                       !.authCall = [outcome |-> fetched, status |-> 401],
                                       !.stages = Append(@, "sessionLogin")]
                 /\ UNCHANGED <<store, nextSid>>
            ELSE LET user == sessionSnapshot(AuthServiceUser(AuthLogin(req.body)))
                     sid == IF req.session.id = 0 THEN nextSid ELSE req.session.id
                     sess == [id |-> sid, user |-> user, lastAccessed |-> now,
                              owner |-> AuthLogin(req.body)]
                 IN  /\ sid \in Sids
                     /\ store' = [store EXCEPT ![sid] =
                                    [user |-> user, lastAccessed |-> now,
                                     expire |-> now + SESSION_MAX_AGE,
                                     owner |-> AuthLogin(req.body)]]
                     /\ nextSid' = IF req.session.id = 0 THEN nextSid + 1 ELSE nextSid
                     /\ req' = [req EXCEPT !.pc = "end", !.session = sess, !.loaded = sess,
                                           !.response = Reply(200, "LOGIN", NoPermission),
                                           !.authCall = [outcome |-> fetched, status |-> 200],
                                           !.stages = Append(@, "sessionLogin")]
  /\ UNCHANGED <<now, permissionCache>>
  /\ UNCHANGED <<grants, lookups, anchor, probe>>
  /\ UNCHANGED serviceVars

\* the body of the status answer
StatusBody(authenticated, authMethod, user) ==
  [authenticated |-> authenticated, authMethod |-> authMethod, user |-> user]

\* GET /api/v1/session/status: the session's user, else the identity that
\* authenticate attached from a token, else unauthenticated
sessionStatus ==
  /\ req.pc = "route"
  /\ req.method = "GET" /\ req.path = SessionStatusPath
  /\ LET body == IF req.session.user # None
                 THEN StatusBody(TRUE, "session",
                                 [id |-> req.session.user.id, email |-> req.session.user.email,
                                  tenantId |-> Undef, tenant |-> req.session.user.tenant])
                 ELSE IF req.user # None /\ req.authMethod = "jwt"
                 THEN StatusBody(TRUE, "jwt",
                                 [id |-> req.user.id, email |-> req.user.email,
                                  tenantId |-> req.user.tenantId, tenant |-> Undef])
                 ELSE StatusBody(FALSE, Undef, None)
     IN  req' = [req EXCEPT !.pc = "end", !.response = Reply(200, "STATUS", NoPermission),
                            !.statusBody = body, !.stages = Append(@, "sessionStatus")]
  /\ UNCHANGED <<now, store, nextSid, permissionCache>>
  /\ UNCHANGED <<grants, lookups, anchor, probe>>
  /\ UNCHANGED serviceVars

\* a session check that never finds the user
hasSessionUserNever(session) == FALSE

\* req.session && req.session.user
hasSessionUser(session) == session.user # None

\* a 401 that is sent without returning from the middleware chain
unauthorizedContinue(r, code) ==
  [r EXCEPT !.pc = "rbac", !.response = Reply(401, code, NoPermission)]

\* return res.status(401).json({error: {code, message}})
unauthorized(r, code) == [r EXCEPT !.pc = "end", !.response = Reply(401, code, NoPermission)]

\* app.use('/api/v1', authenticate)
authenticate ==
  /\ req.pc = "route"
  /\ StartsWith(req.path, MountPrefix)
  /\ ~isSessionRoute(req.method, req.path)
  /\ LET path == RelPath(req.path)
         token == extractBearerToken(req.authorization)
         result == validateJwtToken(token.str, now)
         sessionUser == [id |-> req.session.user.id, tenantId |-> req.session.user.tenantId,
                         email |-> req.session.user.email,
                         firstName |-> req.session.user.firstName,
                         lastName |-> req.session.user.lastName]
         jwtUser == [id |-> result.payload.id, tenantId |-> result.payload.tenantId,
                     email |-> result.payload.email, firstName |-> Undef, lastName |-> Undef]
         r == [req EXCEPT !.stages = Append(@, "authenticate")]
     IN  IF isPublicRoute(req.method, path)
         THEN req' = [r EXCEPT !.pc = "rbac"]
         ELSE IF hasSessionUser(req.session)
         THEN req' = [r EXCEPT !.pc = "rbac", !.sessionRead = TRUE,
                               !.user = sessionUser, !.authMethod = "session",
                               !.headers = setUserHeaders(@, sessionUser),
                               !.session.lastAccessed = now]
         ELSE IF Truthy(token)
         THEN IF result.valid
              THEN req' = [r EXCEPT !.pc = "rbac", !.sessionRead = TRUE, !.tokenChecked = TRUE,
                                    !.user = jwtUser, !.authMethod = "jwt",
                                    !.headers = setUserHeaders(@, jwtUser)]
              ELSE req' = unauthorized([r EXCEPT !.sessionRead = TRUE, !.tokenChecked = TRUE],
                                       result.error)
         ELSE req' = unauthorized([r EXCEPT !.sessionRead = TRUE], "UNAUTHORIZED")
  /\ UNCHANGED <<now, store, nextSid, permissionCache>>
  /\ UNCHANGED <<grants, lookups, anchor, probe>>
  /\ UNCHANGED serviceVars

\* an optional check that answers 401 to a token that does not validate
optionalAuthRejects(r, t) ==
  LET token == extractBearerToken(r.authorization)
      result == validateJwtToken(token.str, t)
      sessionUser == [id |-> r.session.user.id, tenantId |-> r.session.user.tenantId,
                      email |-> r.session.user.email,
                      firstName |-> r.session.user.firstName,
                      lastName |-> r.session.user.lastName]
      jwtUser == [id |-> result.payload.id, tenantId |-> result.payload.tenantId,
                  email |-> result.payload.email, firstName |-> Undef, lastName |-> Undef]
  IN  IF hasSessionUser(r.session)
      THEN [r EXCEPT !.user = sessionUser, !.authMethod = "session",
                     !.headers = setUserHeaders(@, sessionUser),
                     !.stages = Append(@, "next")]
      ELSE IF Truthy(token) /\ result.valid
      THEN [r EXCEPT !.user = jwtUser, !.authMethod = "jwt",
                     !.headers = setUserHeaders(@, jwtUser),
                     !.stages = Append(@, "next")]
      ELSE IF Truthy(token)
      THEN unauthorized(r, result.error)
      ELSE [r EXCEPT !.stages = Append(@, "next")]

\* optionalAuth: the session's user, else the payload of a valid bearer
\* token, else the request as it came; each call of next() is recorded in
\* stages
optionalAuth(r, t) ==
  LET token == extractBearerToken(r.authorization)
      result == validateJwtToken(token.str, t)
      sessionUser == [id |-> r.session.user.id, tenantId |-> r.session.user.tenantId,
                      email |-> r.session.user.email,
                      firstName |-> r.session.user.firstName,
                      lastName |-> r.session.user.lastName]
      jwtUser == [id |-> result.payload.id, tenantId |-> result.payload.tenantId,
                  email |-> result.payload.email, firstName |-> Undef, lastName |-> Undef]
  IN  IF hasSessionUser(r.session)
      THEN [r EXCEPT !.user = sessionUser, !.authMethod = "session",
                     !.headers = setUserHeaders(@, sessionUser),
                     !.stages = Append(@, "next")]
      ELSE IF Truthy(token) /\ result.valid
      THEN [r EXCEPT !.user = jwtUser, !.authMethod = "jwt",
                     !.headers = setUserHeaders(@, jwtUser),
                     !.stages = Append(@, "next")]
      ELSE [r EXCEPT !.stages = Append(@, "next")]

\* the middleware requireAuthMethod(method) returns: 401 unless
\* req.authMethod is that method
requireAuthMethod(method, r) ==
  IF r.authMethod # method
  THEN [r EXCEPT !.pc = "end", !.response = Reply(401, "INVALID_AUTH_METHOD", NoPermission)]
  ELSE r

\* ${userId}:${tenantId}
cacheKey(userId, tenantId) == <<userId, tenantId>>

\* a freshness test that still trusts an entry aged exactly CACHE_TTL
cacheHitInclusive(cache, key, t) ==
  key \in DOMAIN cache /\ t - cache[key].timestamp <= CACHE_TTL

\* cached && Date.now() - cached.timestamp < CACHE_TTL
cacheHit(cache, key, t) ==
  key \in DOMAIN cache /\ t - cache[key].timestamp < CACHE_TTL

\* permissionCache.set(cacheKey, {permissions, timestamp: Date.now()})
cacheSet(cache, key, permissions, t) ==
  (key :> [permissions |-> permissions, timestamp |-> t]) @@ cache

\* a decision that sends the 403 and then calls next() all the same
DecideNoReturn(r, userPermissions) ==
  IF ~hasPermission(userPermissions, r.required)
  THEN [r EXCEPT !.pc = "proxy", !.decision = "deny",
                 !.response = Reply(403, "FORBIDDEN", r.required)]
  ELSE [r EXCEPT !.pc = "proxy", !.decision = "allow"]

\* a denial that does not say which permission is missing
DecideOpaque(r, userPermissions) ==
  IF ~hasPermission(userPermissions, r.required)
  THEN [r EXCEPT !.pc = "end", !.decision = "deny",
                 !.response = Reply(403, "FORBIDDEN", NoPermission)]
  ELSE [r EXCEPT !.pc = "proxy", !.decision = "allow"]

\* the decision of rbacMiddleware once the subject's permissions are known
Decide(r, userPermissions) ==
  IF ~hasPermission(userPermissions, r.required)
  THEN [r EXCEPT !.pc = "end", !.decision = "deny",
                 !.response = Reply(403, "FORBIDDEN", r.required)]
  ELSE [r EXCEPT !.pc = "proxy", !.decision = "allow"]

\* app.use('/api/v1', rbacMiddleware), up to the cache lookup of
\* getUserPermissions
rbacMiddleware ==
  /\ req.pc = "rbac"
  /\ LET requiredPermission == getRequiredPermission(req.method, RelPath(req.path))
         key == cacheKey(req.user.id, req.user.tenantId)
         r == [req EXCEPT !.stages = Append(@, "rbac")]
     IN  IF req.user = None
         THEN req' = [r EXCEPT !.pc = "proxy", !.decision = "skip"]
         ELSE IF requiredPermission = NoPermission
         THEN req' = [r EXCEPT !.pc = "proxy", !.decision = "allow"]
         ELSE IF cacheHit(permissionCache, key, now)
         THEN req' = Decide([r EXCEPT !.required = requiredPermission, !.cacheRead = TRUE],
                            permissionCache[key].permissions)
         ELSE req' = [r EXCEPT !.pc = "fetch", !.required = requiredPermission,
                               !.cacheRead = TRUE, !.authorityCalls = @ + 1]
  /\ UNCHANGED <<now, store, nextSid, permissionCache>>
  /\ UNCHANGED <<grants, lookups, anchor, probe>>
  /\ UNCHANGED serviceVars

\* the authority's answer arrives: the rest of getUserPermissions and of
\* rbacMiddleware
rbacFetchReturn ==
  /\ req.pc = "fetch"
  /\ \E outcome \in AuthorityOutcomes :
       LET permissions == fetchUserPermissions(grants, req.user.id, outcome)
           key == cacheKey(req.user.id, req.user.tenantId)
       IN  /\ permissionCache' = cacheSet(permissionCache, key, permissions, now)
           /\ req' = Decide([req EXCEPT !.outcome = outcome], permissions)
  /\ UNCHANGED <<now, store, nextSid>>
  /\ UNCHANGED <<grants, lookups, anchor, probe>>
  /\ UNCHANGED serviceVars

\* authHeader && authHeader.split(' ')[1]: the text between the first and
\* the second blank of the header, whatever its scheme
secondWord(authHeader) ==
  LET blanks == { i \in 1..Len(authHeader) : authHeader[i] = " " }
      first == CHOOSE i \in blanks : \A j \in blanks : i <= j
      rest == SubSeq(authHeader, first + 1, Len(authHeader))
      restBlanks == { i \in 1..Len(rest) : rest[i] = " " }
  IN  IF blanks = {} THEN <<>>
      ELSE IF restBlanks = {} THEN rest
      ELSE SubSeq(rest, 1, (CHOOSE i \in restBlanks : \A j \in restBlanks : i <= j) - 1)

\* authenticateToken of the auth service: req.user is the payload of the
\* bearer token, or the request is refused
authenticateToken(authHeader, t) ==
  LET token == secondWord(authHeader)
      verified == jwtVerify(token, t)
  IN  IF token = <<>>
      THEN [ok |-> FALSE, message |-> "Token required", user |-> None]
      ELSE IF verified.ok
      THEN [ok |-> TRUE, message |-> "", user |-> verified.payload]
      ELSE [ok |-> FALSE, message |-> "Invalid or expired token", user |-> None]

\* GET /auth/profile of the auth service: authenticateToken, then getProfile
\* for the user the token names
authProfile(authHeader, t) ==
  LET checked == authenticateToken(authHeader, t)
  IN  IF ~checked.ok
      THEN [status |-> statusCodeOf("UnauthorizedError"), message |-> checked.message,
            user |-> Undef]
      ELSE IF checked.user.id \notin Users
      THEN [status |-> statusCodeOf("NotFoundError"), message |-> "User", user |-> Undef]
      ELSE [status |-> 200, message |-> "", user |-> checked.user.id]

AuthProfilePath == <<"api", "v1", "auth", "profile">>

\* what the collaborator behind a proxy answers to the forwarded request
collaboratorAnswer(r, t) ==
  IF r.method = "GET" /\ r.path = AuthProfilePath
  THEN authProfile(r.authorization, t)
  ELSE [status |-> 200, message |-> "", user |-> Undef]

\* the proxies and the 404 handler
proxy ==
  /\ req.pc = "proxy"
  /\ LET i == ProxyFor(req.path)
         r == [req EXCEPT !.stages = Append(@, "proxy")]
     IN  IF i = 0
         THEN req' = [r EXCEPT !.pc = "end", !.response = Reply(404, "NOT_FOUND", NoPermission)]
         ELSE \E up \in BOOLEAN :
                req' = [r EXCEPT !.pc = "end",
                          !.forwarded = [target |-> PROXIES[i].target,
                                         headers |-> IF PROXIES[i].onProxyReq
                                                     THEN onProxyReq(req.headers, req.user)
                                                     ELSE req.headers],
                          !.upstream = IF up THEN collaboratorAnswer(req, now) ELSE None,
                          !.response = IF up
                                       THEN Reply(collaboratorAnswer(req, now).status,
                                                  "UPSTREAM", NoPermission)
                                       ELSE Reply(503, "SERVICE_UNAVAILABLE", NoPermission)]
  /\ UNCHANGED <<now, store, nextSid, permissionCache>>
  /\ UNCHANGED <<grants, lookups, anchor, probe>>
  /\ UNCHANGED serviceVars

\* express-session when the response ends (resave false, rolling true): a
\* loaded session is written back when it changed and touched otherwise; a
\* session that was started empty and stayed empty is not stored
responseEnd ==
  /\ req.pc = "end"
  /\ IF req.session.id \in Sids
     THEN store' = [store EXCEPT ![req.session.id] =
                      [user |-> req.session.user, lastAccessed |-> req.session.lastAccessed,
                       expire |-> now + SESSION_MAX_AGE, owner |-> req.session.owner]]
     ELSE UNCHANGED store
  /\ req' = IdleReq
  /\ UNCHANGED <<now, nextSid, permissionCache>>
  /\ UNCHANGED <<grants, lookups, anchor, probe>>
  /\ UNCHANGED serviceVars

\* the clock advances while no request is being served or while one waits
\* for the permission authority
Tick ==
  /\ req.pc \in {"idle", "fetch"}
  /\ now < MaxTime
  /\ now' = now + 1
  /\ UNCHANGED <<store, nextSid, permissionCache, req>>
  /\ UNCHANGED <<grants, lookups, anchor, probe>>
  /\ UNCHANGED serviceVars

\* --------------------------------------------- concurrent permission lookups
LookupKey == cacheKey(LookupUser.id, LookupUser.tenantId)

\* getUserPermissions up to its await: the cached set when the entry is
\* fresh, otherwise the call to the RBAC service is sent
getUserPermissions(p) ==
  /\ lookups[p].pc \in {"idle", "done"}
  /\ LET inWindow == anchor # None /\ now - anchor.timestamp < CACHE_TTL
         started == [IdleLookup EXCEPT
                       !.stale = /\ LookupKey \in DOMAIN permissionCache
                                 /\ now - permissionCache[LookupKey].timestamp >= CACHE_TTL,
                       !.windowOf = IF inWindow THEN anchor.timestamp ELSE -1]
     IN  IF cacheHit(permissionCache, LookupKey, now)
         THEN lookups' = [lookups EXCEPT ![p] =
                            [started EXCEPT !.pc = "done",
                                            !.result = permissionCache[LookupKey].permissions,
                                            !.age = now - permissionCache[LookupKey].timestamp]]
         ELSE lookups' = [lookups EXCEPT ![p] =
                            [started EXCEPT !.pc = "fetching", !.called = TRUE]]
  /\ UNCHANGED <<now, store, nextSid, permissionCache, req, grants, anchor, probe>>
  /\ UNCHANGED serviceVars

\* the RBAC service answers the call of lookup p from the data it holds
\* now, or the call fails
authorityAnswers(p) ==
  /\ lookups[p].pc = "fetching"
  /\ \E outcome \in AuthorityOutcomes :
       lookups' = [lookups EXCEPT ![p].pc = "answered", ![p].failed = (outcome # "ok"),
                                  ![p].response = fetchUserPermissions(grants, LookupUser.id, outcome)]
  /\ UNCHANGED <<now, store, nextSid, permissionCache, req, grants, anchor, probe>>
  /\ UNCHANGED serviceVars

\* getUserPermissions after its await: the answer is stored under the key
\* with the current time and returned.  anchor keeps the first entry stored
\* since the previous one's TTL ran out.
getUserPermissionsReturn(p) ==
  /\ lookups[p].pc = "answered"
  /\ permissionCache' = cacheSet(permissionCache, LookupKey, lookups[p].response, now)
  /\ lookups' = [lookups EXCEPT ![p].pc = "done", ![p].result = lookups[p].response,
                                ![p].response = {}, ![p].age = 0]
  /\ anchor' = IF anchor = None \/ now - anchor.timestamp >= CACHE_TTL
               THEN [permissions |-> lookups[p].response, timestamp |-> now]
               ELSE anchor
  /\ UNCHANGED <<now, store, nextSid, req, grants, probe>>
  /\ UNCHANGED serviceVars

\* a role or grant of the subject is changed at the RBAC service
grantsChange ==
  /\ \E g \in GrantSets \ {grants[LookupUser.id]} :
       grants' = [grants EXCEPT ![LookupUser.id] = g]
  /\ UNCHANGED <<now, store, nextSid, permissionCache, req, lookups, anchor, probe>>
  /\ UNCHANGED serviceVars

\* ------------------------------------------- concurrent requests on a session
\* a client sends a login without a cookie, or a logout or a GET of a
\* protected route with a session cookie the gateway has issued
SendOn(r) ==
  /\ inflight[r].pc = "idle"
  /\ \E kind \in {"login", "logout", "get"}, cookie \in {0} \cup Sids :
       /\ (kind = "login") <=> (cookie = 0)
       /\ cookie < nextSid
       /\ (kind = "login") => (nextSid <= MaxSessions)
       /\ inflight' = [inflight EXCEPT ![r] =
                         [IdleFlight EXCEPT !.pc = "sent", !.kind = kind, !.cookie = cookie,
                                            !.afterLogout = cookie \in loggedOut]]
  /\ UNCHANGED <<now, store, nextSid, permissionCache, req, grants, lookups, anchor, probe>>
  /\ UNCHANGED <<loggedOut, rls, call, accounts, authReply, bus>>

\* express-session loads the session the cookie names, or starts an empty one
SessionMiddlewareOn(r) ==
  /\ inflight[r].pc = "sent"
  /\ LET cookie == inflight[r].cookie
         sess == IF storeGet(store, cookie, now)
                 THEN [id |-> cookie, user |-> store[cookie].user,
                       lastAccessed |-> store[cookie].lastAccessed,
                       owner |-> store[cookie].owner]
                 ELSE NoSession
     IN  inflight' = [inflight EXCEPT ![r].pc = "loaded", ![r].session = sess,
                                      ![r].savedHash = sess.lastAccessed]
  /\ UNCHANGED <<now, store, nextSid, permissionCache, req, grants, lookups, anchor, probe>>
  /\ UNCHANGED <<loggedOut, rls, call, accounts, authReply, bus>>

\* sessionLogin with accepted credentials: the session is filled and saved
\* under a new id
sessionLoginOn(r) ==
  /\ inflight[r].pc = "loaded"
  /\ inflight[r].kind = "login"
  /\ nextSid \in Sids
  /\ LET user == sessionSnapshot(AuthServiceUser("u1"))
         sess == [id |-> nextSid, user |-> user, lastAccessed |-> now, owner |-> "u1"]
     IN  /\ store' = [store EXCEPT ![nextSid] =
                        [user |-> user, lastAccessed |-> now,
                         expire |-> now + SESSION_MAX_AGE, owner |-> "u1"]]
         /\ inflight' = [inflight EXCEPT ![r].pc = "handled", ![r].session = sess,
                                          ![r].savedHash = now, ![r].status = 200]
  /\ nextSid' = nextSid + 1
  /\ UNCHANGED <<now, permissionCache, req, grants, lookups, anchor, probe>>
  /\ UNCHANGED <<loggedOut, rls, call, accounts, authReply, bus>>

\* sessionLogout: without a session user 200 'No active session', otherwise
\* req.session.destroy deletes the row and the request is left without a
\* session
sessionLogout(r) ==
  /\ inflight[r].pc = "loaded"
  /\ inflight[r].kind = "logout"
  /\ IF ~hasSessionUser(inflight[r].session)
     THEN /\ inflight' = [inflight EXCEPT ![r].pc = "handled", ![r].status = 200]
          /\ UNCHANGED <<store, loggedOut>>
     ELSE /\ store' = [store EXCEPT ![inflight[r].session.id] = None]
          /\ loggedOut' = loggedOut \cup {inflight[r].session.id}
          /\ inflight' = [inflight EXCEPT ![r].pc = "handled", ![r].session = NoSession,
                                           ![r].status = 200]
  /\ UNCHANGED <<now, nextSid, permissionCache, req, grants, lookups, anchor, probe>>
  /\ UNCHANGED <<rls, call, accounts, authReply, bus>>

\* authenticate on a protected route without a bearer token: the session
\* path with its lastAccessed update, or 401
authenticateOn(r) ==
  /\ inflight[r].pc = "loaded"
  /\ inflight[r].kind = "get"
  /\ IF hasSessionUser(inflight[r].session)
     THEN inflight' = [inflight EXCEPT ![r].pc = "handled", ![r].status = 200,
                                       ![r].session.lastAccessed = now]
     ELSE inflight' = [inflight EXCEPT ![r].pc = "handled", ![r].status = 401]
  /\ UNCHANGED <<now, store, nextSid, permissionCache, req, grants, lookups, anchor, probe>>
  /\ UNCHANGED <<loggedOut, rls, call, accounts, authReply, bus>>

\* express-session when the response ends: a session whose data differ from
\* what was loaded or last saved is saved with store.set, an insert-or-update
\* of the row; an unchanged one is touched, an update of the row's expiry
\* that does nothing when the row is gone; a request without a stored
\* session writes nothing
responseEndOn(r) ==
  /\ inflight[r].pc = "handled"
  /\ LET sess == inflight[r].session
     IN  IF sess.id \notin Sids
         THEN UNCHANGED store
         ELSE IF sess.lastAccessed # inflight[r].savedHash
         THEN store' = [store EXCEPT ![sess.id] =
                          [user |-> sess.user, lastAccessed |-> sess.lastAccessed,
                           expire |-> now + SESSION_MAX_AGE, owner |-> sess.owner]]
         ELSE IF store[sess.id] # None
         THEN store' = [store EXCEPT ![sess.id].expire = now + SESSION_MAX_AGE]
         ELSE UNCHANGED store
  /\ inflight' = [inflight EXCEPT ![r] = IdleFlight]
  /\ UNCHANGED <<now, nextSid, permissionCache, req, grants, lookups, anchor, probe>>
  /\ UNCHANGED <<loggedOut, rls, call, accounts, authReply, bus>>

\* ------------------------------------------------------------ auth service
\* prisma.tenant.findUnique({where: {code}})
findTenant(code) ==
  IF \E t \in Tenants : tenantCodeOf(t) = code
  THEN CHOOSE t \in Tenants : tenantCodeOf(t) = code
  ELSE Undef

\* the rows prisma.user.findFirst may return: the users with that e-mail,
\* in that tenant when one is given
findUsers(accts, email, tenant) ==
  { u \in Users : /\ accts.users[u].exists
                  /\ <<UserRecord(u).email>> = email
                  /\ (tenant # Undef => UserRecord(u).tenantId = tenant) }

\* the checks that do not look at whether the user's tenant is active
loginChecksNoTenant(accts, u, password) ==
  IF ~bcryptCompare(password, passwordHashOf(u)) THEN "Invalid credentials"
  ELSE IF ~accts.users[u].isActive THEN "Account is inactive"
  ELSE ""

\* the checks of login on the user row it found: password, user active,
\* tenant active; the message of the UnauthorizedError, "" when all pass
loginChecks(accts, u, password) ==
  IF ~bcryptCompare(password, passwordHashOf(u)) THEN "Invalid credentials"
  ELSE IF ~accts.users[u].isActive THEN "Account is inactive"
  ELSE IF ~accts.tenants[UserRecord(u).tenantId].isActive THEN "Tenant is inactive"
  ELSE ""

\* POST /auth/login of the auth service
login ==
  /\ \E body \in LoginBodies :
       LET password == trim(body.password)
           tenantCode == validateTenantCode(body.tenantCode)
           tenant == IF tenantCode # NoText THEN findTenant(tenantCode) ELSE Undef
           fail(error, message) ==
             /\ authReply' = AuthError(error, message, body)
             /\ UNCHANGED accounts
       IN  IF body.email = NoText THEN fail("ValidationError", "Email is required")
           ELSE IF password = NoText
           THEN fail("ValidationError", "Password is required")
           ELSE IF tenantCode # NoText /\ tenant = Undef THEN fail("NotFoundError", "Tenant")
           ELSE IF tenantCode # NoText /\ ~accounts.tenants[tenant].isActive
           THEN fail("UnauthorizedError", "Tenant is inactive")
           ELSE IF findUsers(accounts, validateEmail(body.email), tenant) = {}
           THEN fail("UnauthorizedError", "Invalid credentials")
           ELSE \E u \in findUsers(accounts, validateEmail(body.email), tenant), updated \in BOOLEAN :
                  IF loginChecks(accounts, u, password) # ""
                  THEN fail("UnauthorizedError", loginChecks(accounts, u, password))
                  ELSE IF ~updated
                  THEN fail("InternalError", "update failed")
                  ELSE /\ accounts' = [accounts EXCEPT !.users[u].lastLogin = now]
                       /\ authReply' = [NoAuthReply EXCEPT
                                          !.op = "login", !.status = 200,
                                          !.user = AuthServiceUser(u),
                                          !.tokens = generateTokens(u), !.body = body,
                                          !.subject = u]
  /\ UNCHANGED gatewayVars
  /\ UNCHANGED <<inflight, loggedOut, rls, call, bus>>

\* POST /auth/register of the auth service: a user row is created in an
\* existing, active tenant unless the tenant has a user of that e-mail
register ==
  /\ \E body \in RegisterBodies :
       LET fail(error, message) ==
             /\ authReply' = [NoAuthReply EXCEPT !.op = "register",
                                                 !.status = statusCodeOf(error),
                                                 !.error = error, !.message = message]
             /\ UNCHANGED accounts
       IN  IF body.tenantId \notin Tenants THEN fail("NotFoundError", "Tenant")
           ELSE IF ~accounts.tenants[body.tenantId].isActive
           THEN fail("ValidationError", "Cannot register with inactive tenant")
           ELSE IF findUsers(accounts, body.email, body.tenantId) # {}
           THEN fail("ValidationError", "User with this email already exists")
           ELSE LET u == CHOOSE u \in Users : /\ <<UserRecord(u).email>> = body.email
                                              /\ UserRecord(u).tenantId = body.tenantId
                IN  /\ accounts' = [accounts EXCEPT !.users[u].exists = TRUE,
                                                    !.users[u].isActive = TRUE]
                    /\ authReply' = [NoAuthReply EXCEPT
                                       !.op = "register", !.status = 201,
                                       !.user = AuthServiceUser(u),
                                       !.tokens = generateTokens(u), !.subject = u]
  /\ UNCHANGED gatewayVars
  /\ UNCHANGED <<inflight, loggedOut, rls, call, bus>>

\* POST /auth/refresh of the auth service: jwt.verify of the presented
\* token, then a new pair for the user its payload names when that user
\* exists and is active
refreshToken ==
  /\ \E token \in RefreshBodies :
       LET verified == jwtVerify(token, now)
           id == verified.payload.id
           fail(error, message) ==
             authReply' = [NoAuthReply EXCEPT !.op = "refresh",
                                              !.status = statusCodeOf(error),
                                              !.error = error, !.message = message,
                                              !.token = token]
       IN  IF token = NoText THEN fail("ValidationError", "Refresh token is required")
           ELSE IF ~verified.ok THEN fail(verified.name, "jwt.verify")
           ELSE IF id \notin Users \/ ~accounts.users[id].exists \/ ~accounts.users[id].isActive
           THEN fail("UnauthorizedError", "Invalid token")
           ELSE authReply' = [NoAuthReply EXCEPT !.op = "refresh", !.status = 200,
                                                !.tokens = generateTokens(id),
                                                !.token = token, !.subject = id]
  /\ UNCHANGED accounts
  /\ UNCHANGED gatewayVars
  /\ UNCHANGED <<inflight, loggedOut, rls, call, bus>>

\* an administrator changes is_active of a user row
setUserActive ==
  /\ \E u \in Users :
       /\ accounts.users[u].exists
       /\ accounts' = [accounts EXCEPT !.users[u].isActive = ~@]
  /\ UNCHANGED gatewayVars
  /\ UNCHANGED <<inflight, loggedOut, rls, call, authReply, bus>>

\* an administrator changes is_active of a tenant row
setTenantActive ==
  /\ \E t \in Tenants :
       accounts' = [accounts EXCEPT !.tenants[t].isActive = ~@]
  /\ UNCHANGED gatewayVars
  /\ UNCHANGED <<inflight, loggedOut, rls, call, authReply, bus>>

\* ------------------------------------------------------------------ event bus
\* the handlers the Map holds for a type, [] when it has no key
handlersOf(b, eventType) ==
  IF eventType \in DOMAIN b.handlers THEN b.handlers[eventType] ELSE <<>>

\* how often handler stands in an array of handlers
Occurrences(handlers, handler) ==
  Cardinality({ i \in 1..Len(handlers) : handlers[i] = handler })

\* handlers.indexOf(handler) then handlers.splice(index, 1)
spliceFirst(handlers, handler) ==
  IF \E i \in 1..Len(handlers) : handlers[i] = handler
  THEN LET index == CHOOSE i \in 1..Len(handlers) :
                      handlers[i] = handler /\ \A j \in 1..(i - 1) : handlers[j] # handler
       IN  SubSeq(handlers, 1, index - 1) \o SubSeq(handlers, index + 1, Len(handlers))
  ELSE handlers

HandlerCount(b) ==
  LET RECURSIVE sum(_)
      sum(types) == IF types = {} THEN 0
                    ELSE LET e == CHOOSE e \in types : TRUE
                         IN  Len(b.handlers[e]) + sum(types \ {e})
  IN  sum(DOMAIN b.handlers)

\* subscribe(eventType, handler): the handler is pushed, and while the Map
\* has exactly one key the channel is subscribed and a 'message' callback
\* is registered
subscribe ==
  /\ HandlerCount(bus) < MaxHandlers
  /\ \E eventType \in EventTypes, handler \in Handlers :
       LET pushed == (eventType :> Append(handlersOf(bus, eventType), handler)) @@ bus.handlers
       IN  /\ Cardinality(DOMAIN pushed) = 1 => bus.listeners < MaxHandlers
           /\ bus' = [bus EXCEPT !.handlers = pushed,
                                  !.listeners = IF Cardinality(DOMAIN pushed) = 1 THEN @ + 1 ELSE @,
                                  !.removed = @ \ {<<eventType, handler>>}]
  /\ UNCHANGED gatewayVars
  /\ UNCHANGED <<inflight, loggedOut, rls, call, accounts, authReply>>

\* unsubscribe(eventType, handler): the first occurrence of the handler is
\* taken out of the type's array
unsubscribe ==
  /\ \E eventType \in EventTypes, handler \in Handlers :
       bus' = [bus EXCEPT !.handlers = IF eventType \in DOMAIN bus.handlers
                                       THEN [@ EXCEPT ![eventType] = spliceFirst(@, handler)]
                                       ELSE @,
                          !.removed = @ \cup {<<eventType, handler>>}]
  /\ UNCHANGED gatewayVars
  /\ UNCHANGED <<inflight, loggedOut, rls, call, accounts, authReply>>

\* a message arrives on the 'events' channel: every registered 'message'
\* callback invokes every handler of the event's type
onMessage ==
  /\ bus.listeners > 0
  /\ \E eventType \in EventTypes :
       bus' = [bus EXCEPT !.last =
                 [type |-> eventType,
                  calls |-> [h \in Handlers |->
                               bus.listeners * Occurrences(handlersOf(bus, eventType), h)]]]
  /\ UNCHANGED gatewayVars
  /\ UNCHANGED <<inflight, loggedOut, rls, call, accounts, authReply>>

\* ---------------------------------------------------------- storage context
\* req.user?.tenant_id || req.headers['x-tenant-id']
resolveTenantId(user, header) ==
  IF user # None /\ user.tenant_id # Undef THEN user.tenant_id ELSE header

\* req.user?.id
userIdOf(user) == IF user # None THEN user.id ELSE Undef

setTenantContextMiddleware ==
  /\ \E user \in RequestUsers, header \in Tenants \cup {Undef} :
       LET tenantId == resolveTenantId(user, header)
       IN  /\ rls' = IF tenantId # Undef
                     THEN setTenantContext(rls, tenantId, userIdOf(user))
                     ELSE rls
           /\ call' = [call EXCEPT !.fn = "setTenantContextMiddleware", !.identity = user,
                                   !.header = header, !.tenantId = tenantId]
  /\ UNCHANGED gatewayVars
  /\ UNCHANGED <<inflight, loggedOut, accounts, authReply, bus>>

setSuperAdminContextMiddleware ==
  /\ rls' = setSuperAdminContext(rls)
  /\ call' = [call EXCEPT !.fn = "setSuperAdminContextMiddleware", !.identity = None,
                          !.header = Undef, !.tenantId = Undef,
                          !.elevated = @ \/ (call.wtc = "callback")]
  /\ UNCHANGED gatewayVars
  /\ UNCHANGED <<inflight, loggedOut, accounts, authReply, bus>>

setTenantContextHelper ==
  /\ \E tenantId \in Tenants, userId \in {Undef, "u1"} :
       /\ rls' = setTenantContext(rls, tenantId, userId)
       /\ call' = [call EXCEPT !.fn = "setTenantContextHelper", !.identity = None,
                               !.header = Undef, !.tenantId = tenantId]
  /\ UNCHANGED gatewayVars
  /\ UNCHANGED <<inflight, loggedOut, accounts, authReply, bus>>

setSuperAdminContextHelper ==
  /\ rls' = setSuperAdminContext(rls)
  /\ call' = [call EXCEPT !.fn = "setSuperAdminContextHelper", !.identity = None,
                          !.header = Undef, !.tenantId = Undef,
                          !.elevated = @ \/ (call.wtc = "callback")]
  /\ UNCHANGED gatewayVars
  /\ UNCHANGED <<inflight, loggedOut, accounts, authReply, bus>>

\* withTenantContext up to its callback: the context is set, or setting it
\* throws and the catch block resets it
withTenantContext ==
  /\ call.wtc # "callback"
  /\ \E tenantId \in Tenants, userId \in {Undef, "u1"}, set \in BOOLEAN :
       /\ rls' = IF set THEN setTenantContext(rls, tenantId, userId)
                 ELSE resetRLSContext(rls)
       /\ call' = [NoCall EXCEPT !.fn = "withTenantContext", !.tenantId = tenantId,
                                 !.wtc = IF set THEN "callback" ELSE "thrown"]
  /\ UNCHANGED gatewayVars
  /\ UNCHANGED <<inflight, loggedOut, accounts, authReply, bus>>

\* the callback returns or throws: either way the context is reset
withTenantContextDone ==
  /\ call.wtc = "callback"
  /\ \E outcome \in {"returned", "thrown"} :
       call' = [call EXCEPT !.fn = "withTenantContext", !.wtc = outcome,
                            !.identity = None, !.header = Undef]
  /\ rls' = resetRLSContext(rls)
  /\ UNCHANGED gatewayVars
  /\ UNCHANGED <<inflight, loggedOut, accounts, authReply, bus>>

\* ------------------------------------------------ calls of the pure functions
RuleMethods == { ROUTE_PERMISSIONS[i].method : i \in RuleIndexes } \cup {"PATCH"}

\* values a client may put where a pattern has a parameter
Ids == {"123", ""}

Concrete(pattern, id) ==
  [i \in 1..Len(pattern) |-> IF IsParam(pattern[i]) THEN id ELSE pattern[i]]

\* the paths of the rules with their parameters filled in, the same paths
\* with one more segment, and a path no rule names
RulePaths ==
  LET filled == { Concrete(ROUTE_PERMISSIONS[i].path, id) : i \in RuleIndexes, id \in Ids }
  IN  filled \cup { f \o <<"assign">> : f \in filled } \cup {<<"api", "v1", "unknown">>}

GrantablePermissions ==
  { <<"*">>, <<"admin", "*">>, <<"cases", "*">>, <<"cases", "read">>,
    <<"cases", "create">>, <<"audit", "*">>, <<"audit", "read">> }

RequiredPermissions == { ROUTE_PERMISSIONS[i].permission : i \in RuleIndexes }

callGetRequiredPermission ==
  /\ probe.fn = "none"
  /\ \E method \in RuleMethods, path \in RulePaths :
       probe' = [NoProbe EXCEPT !.fn = "getRequiredPermission", !.method = method,
                                !.path = path,
                                !.permission = getRequiredPermission(method, path)]
  /\ UNCHANGED <<now, store, nextSid, permissionCache, req, grants, lookups, anchor>>
  /\ UNCHANGED serviceVars

callHasPermission ==
  /\ probe.fn = "none"
  /\ \E granted \in SUBSET GrantablePermissions, required \in RequiredPermissions :
       probe' = [NoProbe EXCEPT !.fn = "hasPermission", !.granted = granted,
                                !.required = required,
                                !.satisfied = hasPermission(granted, required)]
  /\ UNCHANGED <<now, store, nextSid, permissionCache, req, grants, lookups, anchor>>
  /\ UNCHANGED serviceVars

AuthMethods == {"session", "jwt"}

\* a request with or without a session of u1 and with any Authorization
\* header passes optionalAuth and then requireAuthMethod(method)
callRequireAuthMethod ==
  /\ probe.fn = "none"
  /\ \E method \in AuthMethods, withSession \in BOOLEAN, authorization \in AuthHeaders :
       LET session == IF withSession
                      THEN [id |-> 1, user |-> sessionSnapshot(AuthServiceUser("u1")),
                            lastAccessed |-> now, owner |-> "u1"]
                      ELSE NoSession
           arrived == [IdleReq EXCEPT !.pc = "route", !.authorization = authorization,
                                      !.session = session, !.loaded = session]
           left == requireAuthMethod(method, optionalAuth(arrived, now))
       IN  probe' = [NoProbe EXCEPT !.fn = "requireAuthMethod", !.pinned = method,
                                    !.request = left,
                                    !.passed = (left.response.status = 0)]
  /\ UNCHANGED <<now, store, nextSid, permissionCache, req, grants, lookups, anchor>>
  /\ UNCHANGED serviceVars

\* a request of u1's or u2's session or of none, with any Authorization
\* header and any client headers, passes optionalAuth at any time
callOptionalAuth ==
  /\ probe.fn = "none"
  /\ \E owner \in Users \cup {Undef}, authorization \in AuthHeaders,
        clientHeaders \in ClientHeaders, t \in 0..MaxTime :
       LET session == IF owner # Undef
                      THEN [id |-> 1, user |-> sessionSnapshot(AuthServiceUser(owner)),
                            lastAccessed |-> t, owner |-> owner]
                      ELSE NoSession
           arrived == [IdleReq EXCEPT !.pc = "route", !.authorization = authorization,
                                      !.clientHeaders = clientHeaders,
                                      !.headers = clientHeaders,
                                      !.session = session, !.loaded = session]
           left == optionalAuth(arrived, t)
       IN  probe' = [NoProbe EXCEPT !.fn = "optionalAuth", !.request = left, !.at = t,
                                    !.passed = (left.response.status = 0)]
  /\ UNCHANGED <<now, store, nextSid, permissionCache, req, grants, lookups, anchor>>
  /\ UNCHANGED serviceVars

Next ==
  \/ NewRequest
  \/ SessionMiddleware
  \/ sessionLogin
  \/ authenticate
  \/ rbacMiddleware
  \/ proxy
  \/ responseEnd
  \/ Tick

\* the gateway serving every kind of request but the permission-gated path
Spec == Init /\ [][Next]_vars

NextRbac ==
  \/ NewRequestRbac
  \/ SessionMiddleware
  \/ authenticate
  \/ rbacMiddleware
  \/ rbacFetchReturn
  \/ proxy
  \/ responseEnd
  \/ Tick

\* the gateway serving cookie-less requests, the permission-gated path included
SpecRbac == Init /\ [][NextRbac]_vars

\* The same gateway with every step of the gateway itself weakly fair: a
\* middleware that can run does run.  Nothing makes a client send a request
\* or the RBAC service answer a call, so NewRequestRbac and rbacFetchReturn
\* carry no fairness.
SpecRbacFair ==
  /\ Init /\ [][NextRbac]_vars
  /\ WF_vars(SessionMiddleware)
  /\ WF_vars(authenticate)
  /\ WF_vars(rbacMiddleware)
  /\ WF_vars(proxy)
  /\ WF_vars(responseEnd)

NextStatus ==
  \/ NewRequestStatus
  \/ SessionMiddleware
  \/ sessionLogin
  \/ sessionStatus
  \/ authenticate
  \/ rbacMiddleware
  \/ proxy
  \/ responseEnd
  \/ Tick

\* the gateway serving the login and status paths of the session router
SpecStatus == Init /\ [][NextStatus]_vars

NextTenant ==
  \/ setTenantContextMiddleware
  \/ setSuperAdminContextMiddleware
  \/ setTenantContextHelper
  \/ setSuperAdminContextHelper
  \/ withTenantContext
  \/ withTenantContextDone

\* the operations on the storage context markers of one database session;
\* the tenant middleware, the helpers and the callback of withTenantContext
\* may run in any order
SpecTenant == Init /\ [][NextTenant]_vars

NextAuth ==
  \/ login
  \/ register
  \/ refreshToken
  \/ setUserActive
  \/ setTenantActive

\* the auth service answering logins while user and tenant rows are
\* activated and deactivated
SpecAuth == Init /\ [][NextAuth]_vars

NextBus ==
  \/ subscribe
  \/ unsubscribe
  \/ onMessage

\* subscribe and unsubscribe calls on one EventBus while events arrive
SpecBus == Init /\ [][NextBus]_vars

NextCache ==
  \/ \E p \in Lookups : getUserPermissions(p)
  \/ \E p \in Lookups : authorityAnswers(p)
  \/ \E p \in Lookups : getUserPermissionsReturn(p)
  \/ grantsChange
  \/ Tick

\* concurrent getUserPermissions lookups of one (subject, tenant) against an
\* RBAC service whose data changes
SpecCache == Init /\ [][NextCache]_vars

NextSession ==
  \/ \E r \in Requests : SendOn(r)
  \/ \E r \in Requests : SessionMiddlewareOn(r)
  \/ \E r \in Requests : sessionLoginOn(r)
  \/ \E r \in Requests : sessionLogout(r)
  \/ \E r \in Requests : authenticateOn(r)
  \/ \E r \in Requests : responseEndOn(r)
  \/ Tick

\* concurrent logins, logouts and session-authenticated requests on the
\* session store
SpecSession == Init /\ [][NextSession]_vars

NextRules ==
  \/ callGetRequiredPermission
  \/ callHasPermission
  \/ callRequireAuthMethod
  \/ callOptionalAuth

\* getRequiredPermission and hasPermission applied to bounded inputs
SpecRules == Init /\ [][NextRules]_vars

TypeOK ==
  /\ now \in 0..MaxTime
  /\ nextSid \in 1..(MaxSessions + 1)
  /\ req.pc \in {"idle", "session", "route", "rbac", "fetch", "proxy", "end"}

\* =================================================================== claims
Ran(stage) == \E i \in 1..Len(req.stages) : req.stages[i] = stage

\* the request is on a protected route and authenticate has handled it
ProtectedDone == Ran("authenticate") /\ ~isPublicRoute(req.method, RelPath(req.path))

\* the answer is the gateway's own, not one passed on from a collaborator
OwnAnswer == req.response.code # "UPSTREAM"

\* the token text after the 'Bearer ' prefix of the request's header
SuppliedToken == Substring(req.authorization, Len(BearerPrefix))

SuppliesBearer == StartsWith(req.authorization, BearerPrefix)

\* C1: a forwarded request of a protected route carries the x-user-id,
\* x-tenant-id and x-user-email of the resolved Identity (the session
\* snapshot or the token's payload), whatever values of these headers the
\* client sent.
C1_ForwardedIdentity ==
  (req.forwarded # None /\ ProtectedDone) =>
     /\ req.user # None
     /\ req.forwarded.headers["x-user-id"] = req.user.id
     /\ req.forwarded.headers["x-tenant-id"] = req.user.tenantId
     /\ req.forwarded.headers["x-user-email"] = req.user.email
     /\ (req.authMethod = "session") =>
          /\ req.user.id = req.loaded.user.id
          /\ req.user.tenantId = req.loaded.user.tenantId
          /\ req.user.email = req.loaded.user.email
     /\ (req.authMethod = "jwt") =>
          /\ req.user.id = jwtVerify(SuppliedToken, now).payload.id
          /\ req.user.tenantId = jwtVerify(SuppliedToken, now).payload.tenantId
          /\ req.user.email = jwtVerify(SuppliedToken, now).payload.email

C1_Witness ==
  /\ req.forwarded # None
  /\ ProtectedDone
  /\ req.authMethod = "jwt"
  /\ req.clientHeaders["x-tenant-id"] = "evil"
  /\ req.forwarded.headers["x-tenant-id"] = "t1"
  /\ req.forwarded.headers["x-user-email"] = "e1"

\* C2: for subject u1 of tenant t1, whose grant set at the authority is
\* exactly {cases:read}, GET /api/v1/cases is forwarded to the case service
\* and POST /api/v1/cases ends in a 403 naming cases:create and is not
\* forwarded.
C2_CasesReadOnlyScenario ==
  ( /\ req.pc = "end"
    /\ req.user # None
    /\ req.user.id = "u1" /\ req.user.tenantId = "t1"
    /\ AuthorityPermissions("u1") = {<<"cases", "read">>}
    /\ req.path = <<"api", "v1", "cases">> ) =>
     /\ (req.method = "GET") => (req.forwarded # None /\ req.forwarded.target = "case")
     /\ (req.method = "POST") =>
          /\ req.response.status = 403
          /\ req.response.detail = <<"cases", "create">>
          /\ req.forwarded = None

\* C3: on a protected route a request with a usable session is resolved
\* from the session snapshot and tagged 'session', and its bearer token, if
\* any, is never validated.
C3_SessionBeforeToken ==
  (ProtectedDone /\ req.loaded.user # None) =>
     /\ req.authMethod = "session"
     /\ req.user # None
     /\ req.user.id = req.loaded.user.id
     /\ req.user.tenantId = req.loaded.user.tenantId
     /\ req.user.email = req.loaded.user.email
     /\ ~req.tokenChecked
     /\ ~(OwnAnswer /\ req.response.status = 401)

C3_Witness ==
  /\ ProtectedDone
  /\ req.loaded.user # None
  /\ req.authorization = BearerPrefix \o <<"tokF">>
  /\ req.authMethod = "session"

\* C4: on a protected route with no usable session, a request whose
\* Authorization header starts with 'Bearer ' and whose token does not
\* validate is answered 401 with TOKEN_EXPIRED or INVALID_TOKEN, the empty
\* token included.
C4_SuppliedInvalidTokenIsTerminal ==
  ( /\ ProtectedDone
    /\ req.loaded.user = None
    /\ SuppliesBearer
    /\ ~jwtVerify(SuppliedToken, now).ok ) =>
     /\ req.pc = "end"
     /\ req.response.status = 401
     /\ req.response.code \in {"TOKEN_EXPIRED", "INVALID_TOKEN"}

\* the allow-list as the claim words it
OnAllowList(method, path) ==
  \/ method = "POST" /\ StartsWith(path, <<"auth", "login">>)
  \/ method = "POST" /\ StartsWith(path, <<"auth", "register">>)
  \/ method = "POST" /\ StartsWith(path, <<"auth", "refresh">>)
  \/ method = "POST" /\ StartsWith(path, <<"session", "login">>)
  \/ method = "GET" /\ StartsWith(path, <<"tenants", "validate">>)

\* C5: on an allow-listed (method, path) authenticate calls next() without
\* reading the session, validating a token, or setting req.user,
\* req.authMethod or a header; the same path with another method is not
\* public and has its credentials consulted.
C5_PublicRoutesSkipCredentials ==
  Ran("authenticate") =>
     IF OnAllowList(req.method, RelPath(req.path))
     THEN /\ ~req.sessionRead
          /\ ~req.tokenChecked
          /\ req.user = None
          /\ req.authMethod = Undef
          /\ req.headers = req.clientHeaders
          /\ req.response.status # 401
          /\ Ran("rbac") \/ req.pc = "rbac"
     ELSE /\ req.sessionRead
          /\ req.user # None \/ req.response.status = 401

C5_Witness ==
  /\ Ran("authenticate")
  /\ OnAllowList(req.method, RelPath(req.path))
  /\ req.loaded.user # None
  /\ req.authorization = BearerPrefix \o <<"tokA">>
  /\ jwtVerify(SuppliedToken, now).ok
  /\ req.clientHeaders["x-tenant-id"] = "evil"
  /\ req.forwarded # None

\* C6: a request to a protected route with no usable session and no
\* Bearer-scheme credential is answered 401 UNAUTHORIZED and reaches neither
\* rbacMiddleware nor a collaborator.
C6_NoCredential ==
  (ProtectedDone /\ req.loaded.user = None /\ ~SuppliesBearer) =>
     /\ req.pc = "end"
     /\ req.response.status = 401
     /\ req.response.code = "UNAUTHORIZED"
     /\ ~Ran("rbac")
     /\ ~Ran("proxy")
     /\ req.forwarded = None

C6_Witness ==
  /\ ProtectedDone
  /\ req.loaded.user = None
  /\ req.authorization = BasicPrefix \o <<"tokA">>
  /\ req.response.code = "UNAUTHORIZED"

\* what the token text is: its content when it is one of the tokens, and
\* the content of a malformed token otherwise
ContentOf(str) ==
  IF Len(str) = 1 /\ str[1] \in Tokens THEN TokenContent(str[1]) ELSE TokenContent("tokM")

C8_ExpiredSessionFallsThrough ==
  (ProtectedDone /\ req.expiredCookie) =>
     /\ req.authMethod # "session"
     /\ (req.user # None) =>
          /\ req.authMethod = "jwt"
          /\ req.tokenChecked
          /\ SuppliesBearer /\ jwtVerify(SuppliedToken, now).ok
     /\ (req.user = None) => (req.pc = "end" /\ req.response.status = 401)

C8_Witness ==
  /\ ProtectedDone
  /\ req.expiredCookie
  /\ req.authMethod = "jwt"
  /\ req.forwarded # None

IsPrefix(s, t) == Len(s) <= Len(t) /\ SubSeq(t, 1, Len(s)) = s

\* C9: the stages of one request run in the order session, authenticate,
\* rbac, proxy; a permission decision is taken only for a resolved
\* Identity, and the outgoing request exists, with the identity headers on
\* it, only after the decision allowed the request.
C9_StageOrder ==
  /\ IsPrefix(req.stages, <<"session", "authenticate", "rbac", "proxy">>)
  /\ (req.decision \in {"allow", "deny"} \/ req.pc = "fetch") =>
        (req.user # None /\ req.authMethod \in {"session", "jwt"})
  /\ (req.decision # "none" \/ req.pc = "fetch") => Ran("authenticate")
  /\ Ran("proxy") => req.decision \in {"allow", "skip"}
  /\ (req.forwarded # None) =>
        /\ Ran("proxy")
        /\ (req.user # None) =>
             /\ req.decision = "allow"
             /\ req.forwarded.headers["x-user-id"] = req.user.id
             /\ req.forwarded.headers["x-tenant-id"] = req.user.tenantId
             /\ req.forwarded.headers["x-user-email"] = req.user.email
        /\ (req.user = None) => req.forwarded.headers = req.clientHeaders

C9_Witness ==
  /\ req.stages = <<"session", "authenticate", "rbac", "proxy">>
  /\ req.decision = "allow"
  /\ req.user # None
  /\ req.forwarded # None
  /\ req.forwarded.headers["x-tenant-id"] = "t1"

\* C10: a request answered 401 by authenticate never reaches
\* rbacMiddleware, a request answered 401 or 403 is never forwarded, and no
\* stage of the pipeline runs a second time.
C10_RejectionsAreTerminal ==
  /\ (OwnAnswer /\ req.response.status = 401) =>
        /\ req.pc = "end"
        /\ ~Ran("rbac")
        /\ req.decision = "none"
  /\ (OwnAnswer /\ req.response.status \in {401, 403}) =>
        /\ req.pc = "end"
        /\ ~Ran("proxy")
        /\ req.forwarded = None
  /\ (req.decision = "deny") => req.response.status = 403
  /\ \A i, j \in 1..Len(req.stages) : (i # j) => req.stages[i] # req.stages[j]

C10_Witness ==
  /\ req.response.status = 403
  /\ req.decision = "deny"
  /\ req.pc = "end"
  /\ req.path = GatedPath

\* a rule's pattern and a concrete path agree: equal segment count and
\* equal segments wherever the pattern has no parameter
SegmentsAgree(pattern, path) ==
  /\ Len(pattern) = Len(path)
  /\ \A i \in 1..Len(pattern) : IsParam(pattern[i]) \/ pattern[i] = path[i]

HasParam(pattern) == \E i \in 1..Len(pattern) : IsParam(pattern[i])

\* C11: for every rule whose pattern has a ':param' segment,
\* getRequiredPermission returns the rule's permission for every path of
\* the same method that agrees with the pattern segment by segment, and it
\* returns a permission only from a rule of that method whose pattern has
\* the path's segment count and agrees with it.
C11_ParamRulesMatch ==
  (probe.fn = "getRequiredPermission") =>
     /\ \A i \in RuleIndexes :
          ( /\ HasParam(ROUTE_PERMISSIONS[i].path)
            /\ ROUTE_PERMISSIONS[i].method = probe.method
            /\ SegmentsAgree(ROUTE_PERMISSIONS[i].path, probe.path) ) =>
             probe.permission = ROUTE_PERMISSIONS[i].permission
     /\ (probe.permission # NoPermission) =>
          \E i \in RuleIndexes :
             /\ ROUTE_PERMISSIONS[i].method = probe.method
             /\ SegmentsAgree(ROUTE_PERMISSIONS[i].path, probe.path)
             /\ ROUTE_PERMISSIONS[i].permission = probe.permission

\* the grants hasPermission treats as superuser markers: '*' and 'admin:*'
SuperuserMarkers == {<<"*">>, <<"admin", "*">>}

\* C12: hasPermission(granted, required) is true exactly when granted holds
\* the required permission, the wildcard '<resource>:*' of the required
\* permission's own resource, or a superuser marker.
C12_HasPermissionExactly ==
  (probe.fn = "hasPermission") =>
     ( probe.satisfied <=>
         \/ probe.required \in probe.granted
         \/ <<probe.required[1], "*">> \in probe.granted
         \/ probe.granted \cap SuperuserMarkers # {} )

C12_Witness ==
  /\ probe.fn = "hasPermission"
  /\ probe.required = <<"cases", "create">>
  /\ probe.granted = {<<"cases", "*">>, <<"audit", "read">>}
  /\ probe.satisfied

\* the rules of the table that the request's method and mount-relative path
\* agree with
MatchedRules ==
  { i \in RuleIndexes :
      /\ ROUTE_PERMISSIONS[i].method = req.method
      /\ SegmentsAgree(ROUTE_PERMISSIONS[i].path, RelPath(req.path)) }

\* C13: a request that rbacMiddleware denies is answered 403 FORBIDDEN and
\* the error names the permission that was required of it, which is the
\* permission of a rule of the table; a request of a resolved Identity for
\* which no permission is required is allowed and never answered 403.
C13_DenialNamesPermission ==
  /\ (req.decision = "deny") =>
        /\ req.response.status = 403
        /\ req.response.code = "FORBIDDEN"
        /\ req.response.detail # NoPermission
        /\ req.response.detail = getRequiredPermission(req.method, RelPath(req.path))
        /\ \E i \in RuleIndexes :
              /\ ROUTE_PERMISSIONS[i].method = req.method
              /\ ROUTE_PERMISSIONS[i].permission = req.response.detail
  /\ ( /\ Ran("rbac")
       /\ req.user # None
       /\ getRequiredPermission(req.method, RelPath(req.path)) = NoPermission ) =>
        /\ req.decision = "allow"
        /\ req.response.status # 403

C13_Witness ==
  /\ req.decision = "deny"
  /\ req.method = "POST"
  /\ req.path = GatedPath
  /\ req.user # None /\ req.user.id = "u1"
  /\ req.outcome = "ok"
  /\ req.response.detail = <<"cases", "create">>

\* C14: an authenticated request whose method and path agree with no rule
\* of the table passes rbacMiddleware without a read of the permission
\* cache and without a call to the RBAC service.
C14_UngatedSkipsLookup ==
  (Ran("rbac") /\ req.user # None /\ MatchedRules = {}) =>
     /\ req.decision = "allow"
     /\ ~req.cacheRead
     /\ req.authorityCalls = 0

\* C15: two lookups of the same (subject, tenant) that both start less than
\* CACHE_TTL after an entry was stored return the same permission set,
\* whatever the RBAC service holds by then, and neither calls the RBAC
\* service.
C15_LookupsInWindowAgree ==
  \A p, q \in Lookups :
     ( /\ lookups[p].pc = "done" /\ lookups[q].pc = "done"
       /\ lookups[p].windowOf # -1
       /\ lookups[p].windowOf = lookups[q].windowOf ) =>
        /\ lookups[p].result = lookups[q].result
        /\ ~lookups[p].called
        /\ ~lookups[q].called

\* C16: a lookup never returns a set that is CACHE_TTL or more old: a
\* lookup that finds an entry of that age calls the RBAC service, and when
\* the answer arrives the lookup replaces the entry with the answer, stamped
\* with the current time, and returns the answer.
C16_NeverTrustedPastTTL ==
  /\ [](\A p \in Lookups :
          /\ lookups[p].stale => lookups[p].called
          /\ (lookups[p].pc = "done") =>
                /\ lookups[p].age >= 0
                /\ lookups[p].age < CACHE_TTL
                /\ lookups[p].called => lookups[p].age = 0)
  /\ [][\A p \in Lookups :
          (lookups[p].pc = "answered" /\ lookups'[p].pc = "done") =>
             /\ lookups'[p].result = lookups[p].response
             /\ LookupKey \in DOMAIN permissionCache'
             /\ permissionCache'[LookupKey] =
                  [permissions |-> lookups[p].response, timestamp |-> now]]_vars

C16_Witness ==
  \E p \in Lookups :
     /\ lookups[p].pc = "done"
     /\ lookups[p].stale
     /\ lookups[p].called
     /\ lookups[p].result = {<<"cases", "read">>, <<"cases", "create">>}
     /\ permissionCache[LookupKey] = [permissions |-> lookups[p].result, timestamp |-> now]

\* C17: under any interleaving of lookups of one (subject, tenant), the
\* permission set of a cache entry does not change while less than
\* CACHE_TTL has passed since the entry was written.
C17_EntryImmutableUntilExpiry ==
  [][ ( /\ LookupKey \in DOMAIN permissionCache
        /\ now - permissionCache[LookupKey].timestamp < CACHE_TTL ) =>
         permissionCache'[LookupKey].permissions = permissionCache[LookupKey].permissions ]_vars

\* C18: when the call to the RBAC service fails, by a network error or by
\* a non-OK status, the request on the permission-gated route is let
\* through to the proxies and is not answered 403.
C18_AuthorityFailureFailsOpen ==
  (req.outcome \in {"notOk", "networkError"}) =>
     /\ req.decision = "allow"
     /\ req.response.status # 403

\* C19: a request that waits for the RBAC service's answer on a
\* permission-gated route is eventually answered, even when the RBAC
\* service never answers.
C19_AuthorityHangDoesNotHangRequest ==
  (req.pc = "fetch") ~> (req.pc = "end" /\ req.response.status # 0)

\* C20: a request authenticated by the session path on a protected route
\* leaves the stored session with a lastAccessed strictly greater than the
\* one it had before the request.
C20_LastAccessedStrictlyIncreases ==
  [][ (req.pc = "end" /\ req.authMethod = "session") =>
         store'[req.session.id].lastAccessed > store[req.session.id].lastAccessed ]_vars

\* C21: every resolution by authenticate of a session that sessionLogin
\* created yields the id, the tenant's id and the email of the user object
\* the auth service returned at creation, however often the session was
\* resolved and touched before.
C21_SessionRoundTrip ==
  (req.authMethod = "session") =>
     LET created == AuthServiceUser(req.loaded.owner)
     IN  /\ req.loaded.owner \in Users
         /\ req.user.id = created.id
         /\ req.user.tenantId = created.tenant.id
         /\ req.user.email = created.email

\* a resolution of u2's session after an earlier request has touched it
C21_Witness ==
  /\ req.authMethod = "session"
  /\ req.loaded.owner = "u2"
  /\ req.user.tenantId = "t2"
  /\ req.response.status = 200
  /\ req.loaded.lastAccessed > 0
  /\ store[req.session.id].expire > req.loaded.lastAccessed + SESSION_MAX_AGE

\* C22: a GET of a protected route that was sent with a session's cookie and
\* no bearer token after a logout of that session had completed is answered
\* 401.
C22_LoggedOutCookieRejected ==
  \A r \in Requests :
     ( /\ inflight[r].pc = "handled"
       /\ inflight[r].kind = "get"
       /\ inflight[r].afterLogout ) =>
        inflight[r].status = 401

\* C28: under any interleaving of a logout with other requests on the same
\* session, the record of a session whose destroy has completed is not in
\* the store again.
C28_DestroyedStaysDestroyed ==
  \A sid \in loggedOut : store[sid] = None

\* C29: a failed call to the permission authority never writes an entry to
\* the permission cache: when a lookup whose call failed returns, the cache
\* is what it was before
C29_FailureWritesNoEntry ==
  [][\A p \in Lookups :
       (lookups[p].pc = "answered" /\ lookups[p].failed /\ lookups'[p].pc = "done")
         => permissionCache' = permissionCache]_vars

\* C30: every Identity that authenticate attaches on a protected route has a
\* defined subject id and a defined tenant id, whichever token the auth
\* service issued was presented as the bearer credential
C30_IdentityHasSubjectAndTenant ==
  (ProtectedDone /\ req.user # None) =>
     (req.user.id # Undef /\ req.user.tenantId # Undef)

\* C23: GET /api/v1/session/status reports authMethod 'session' for a request
\* with a session; with a valid bearer token and no session it reports
\* authenticated with authMethod 'jwt' and the token's id, email and
\* tenantId; with neither it reports authenticated false
C23_StatusReportsCredential ==
  LET result == validateJwtToken(SuppliedToken, now)
      validBearer == SuppliesBearer /\ SuppliedToken # <<>> /\ result.valid
  IN  (req.pc = "end" /\ Ran("sessionStatus")) =>
        /\ req.loaded.user # None =>
              (req.statusBody.authenticated /\ req.statusBody.authMethod = "session")
        /\ (req.loaded.user = None /\ validBearer) =>
              /\ req.statusBody.authenticated
              /\ req.statusBody.authMethod = "jwt"
              /\ req.statusBody.user # None
              /\ req.statusBody.user.id = result.payload.id
              /\ req.statusBody.user.email = result.payload.email
              /\ req.statusBody.user.tenantId = result.payload.tenantId
        /\ (req.loaded.user = None /\ ~validBearer) => ~req.statusBody.authenticated

\* C27: requireAuthMethod(m) lets a request through exactly when it was
\* authenticated with method m, and answers INVALID_AUTH_METHOD only to
\* requests that were authenticated by some method
C27_InvalidMethodOnlyForAuthenticated ==
  (probe.fn = "requireAuthMethod") =>
     /\ probe.passed <=> (probe.request.authMethod = probe.pinned)
     /\ ~probe.passed =>
          /\ probe.request.response.status = 401
          /\ (probe.request.response.code = "INVALID_AUTH_METHOD"
                => probe.request.authMethod \in AuthMethods)

\* C24: after setTenantContextMiddleware the tenant marker is the tenant id
\* of the request's identity; the x-tenant-id header of the client never
\* becomes the marker, with or without an identity
C24_MarkerFromIdentityOnly ==
  [][(call'.fn = "setTenantContextMiddleware" /\ rls'.tenant # rls.tenant) =>
        /\ call'.identity # None
        /\ rls'.tenant = call'.identity.tenant_id]_vars

SuperAdminCalls == {"setSuperAdminContextMiddleware", "setSuperAdminContextHelper"}

Entitled(body) ==
  { u \in Users :
      /\ body.email # NoText /\ validateEmail(body.email) = <<UserRecord(u).email>>
      /\ body.tenantCode # NoText =>
            validateTenantCode(body.tenantCode) = tenantCodeOf(UserRecord(u).tenantId)
      /\ body.password # NoText /\ bcryptCompare(trim(body.password), passwordHashOf(u))
      /\ accounts.users[u].exists
      /\ accounts.users[u].isActive
      /\ accounts.tenants[UserRecord(u).tenantId].isActive }

C31_NoClientChosenIdentityHeaders ==
  (req.forwarded # None /\ req.user = None) =>
     /\ req.forwarded.headers["x-user-id"] = Undef
     /\ req.forwarded.headers["x-tenant-id"] = Undef

\* the field of the Identity a trust-boundary header is derived from
IdentityField(user, h) ==
  CASE h = "x-user-id" -> user.id
    [] h = "x-tenant-id" -> user.tenantId
    [] h = "x-user-email" -> user.email
    [] h = "x-user-firstname" -> user.firstName
    [] OTHER -> user.lastName

\* C32: once authenticate has attached an Identity, each of the five
\* trust-boundary headers of the request is absent or is the Identity's
\* field; a first or last name the client sent does not survive on the JWT
\* path, where the Identity has no names
C32_HeadersDerivedFromIdentity ==
  (Ran("authenticate") /\ req.user # None) =>
     \A h \in HdrNames :
        \/ req.headers[h] = Undef
        \/ req.headers[h] = IdentityField(req.user, h)

\* C36: a grant set without the required permission, without the global
\* marker '*' and without the wildcard of the required permission's own
\* resource never satisfies hasPermission; a wildcard on another resource
\* grants nothing outside that resource
C36_ForeignWildcardGrantsNothing ==
  ( /\ probe.fn = "hasPermission"
    /\ probe.required \notin probe.granted
    /\ <<"*">> \notin probe.granted
    /\ wildcardOf(probe.required) \notin probe.granted )
  => ~probe.satisfied

\* how often the middleware that left the probe's request called next()
NextCalls ==
  Cardinality({ i \in 1..Len(probe.request.stages) : probe.request.stages[i] = "next" })

\* C37: optionalAuth calls next() exactly once and sends no response; it
\* sets req.user, req.authMethod and the identity headers exactly when the
\* request has a session user or its Bearer token validates, and leaves a
\* request with an invalid or expired token unauthenticated
C37_OptionalAuthAlwaysContinues ==
  LET r == probe.request
      token == Substring(r.authorization, Len(BearerPrefix))
      bearer == StartsWith(r.authorization, BearerPrefix) /\ token # <<>>
      verified == jwtVerify(token, probe.at)
      bySession == r.loaded.user # None
      byToken == ~bySession /\ bearer /\ verified.ok
  IN  (probe.fn = "optionalAuth") =>
        /\ NextCalls = 1
        /\ r.response = NoReply
        /\ r.pc = "route"
        /\ (r.user # None) <=> (bySession \/ byToken)
        /\ (r.authMethod # Undef) <=> (bySession \/ byToken)
        /\ bySession =>
              /\ r.authMethod = "session"
              /\ r.user.id = r.loaded.user.id
              /\ r.headers["x-user-id"] = r.loaded.user.id
              /\ r.headers["x-tenant-id"] = r.loaded.user.tenantId
              /\ r.headers["x-user-email"] = r.loaded.user.email
        /\ byToken =>
              /\ r.authMethod = "jwt"
              /\ r.user.id = verified.payload.id
              /\ r.headers["x-user-id"] = verified.payload.id
              /\ r.headers["x-tenant-id"] = verified.payload.tenantId
              /\ r.headers["x-user-email"] = verified.payload.email
        /\ ~(bySession \/ byToken) => r.headers = r.clientHeaders

C37_Witness ==
  /\ probe.fn = "optionalAuth"
  /\ probe.request.authorization = BearerPrefix \o <<"tokA">>
  /\ probe.at >= JWT_EXPIRES_IN
  /\ probe.request.loaded.user = None
  /\ probe.request.user = None
  /\ probe.passed

LoginRequest == req.method = "POST" /\ req.path = SessionLoginPath

\* C38: sessionLogin answers 400 without calling the auth service when
\* e-mail or password is missing, relays the auth service's status when it
\* rejects the credentials, answers 503 when the auth service cannot be
\* reached, and in none of these cases does the request leave a session
\* record that was not there before
C38_SessionOnlyAfterAuthSuccess ==
  /\ [](( req.pc = "end" /\ Ran("sessionLogin")) =>
          /\ (req.body.email = Undef \/ req.body.password = Undef) =>
                (req.response.status = 400 /\ req.authCall.outcome = "none")
          /\ (req.authCall.outcome = "answer" /\ req.authCall.status # 200) =>
                req.response.status = req.authCall.status
          /\ (req.authCall.outcome \notin {"none", "answer"}) =>
                req.response.status = 503)
  /\ [][( /\ LoginRequest
          /\ req.pc \in {"route", "end"}
          /\ \/ req.response.status \notin {0, 200}
             \/ (req.pc = "route" /\ req'.response.status # 200) )
        => \A sid \in Sids : store[sid] = None => store'[sid] = None]_vars

\* C33: a request the gateway authenticated, by session or by JWT, and
\* forwarded to the auth service's GET /auth/profile passes the auth
\* service's authenticateToken and is served for the Identity the gateway
\* resolved
C33_CollaboratorAcceptsGatewayIdentity ==
  ( /\ req.pc = "end"
    /\ req.method = "GET" /\ req.path = AuthProfilePath
    /\ req.user # None
    /\ req.upstream # None )
  => /\ req.upstream.status = 200
     /\ req.upstream.user = req.user.id

\* C34: the refresh exchange issues a new pair only for a token that was
\* issued as a refresh token; an unexpired access token is rejected
C34_RefreshNeedsRefreshToken ==
  [][(authReply' # authReply /\ authReply'.op = "refresh" /\ authReply'.tokens # None) =>
       \E u \in Users :
          authReply'.token = <<"tokR">> /\ TokenContent("tokR") = generateTokens(u).refreshToken]_vars

\* C35: login, register and refresh never issue a token pair for a user
\* whose account is inactive or whose tenant is inactive, in whatever order
\* rows were deactivated and tokens requested
C35_NoTokensForInactive ==
  [][(authReply' # authReply /\ authReply'.tokens # None) =>
       /\ authReply'.subject \in Users
       /\ accounts'.users[authReply'.subject].exists
       /\ accounts'.users[authReply'.subject].isActive
       /\ accounts'.tenants[UserRecord(authReply'.subject).tenantId].isActive]_vars

\* C39: when an event of type E is received, each handler subscribed for E
\* at that moment is invoked exactly once and no other handler is invoked,
\* and a handler that unsubscribe was called for is not invoked
C39_HandlersInvokedExactlyOnce ==
  [][(bus'.last # bus.last) =>
       \A h \in Handlers :
          /\ bus'.last.calls[h] =
                IF Occurrences(handlersOf(bus, bus'.last.type), h) > 0 THEN 1 ELSE 0
          /\ <<bus'.last.type, h>> \in bus.removed => bus'.last.calls[h] = 0]_vars

====
